---- MODULE Spec2Model ----
(***************************************************************************)
(* Discord Mosaic TTS: the clip catalog pipeline (clip_parser.py,          *)
(* deduplicator.py), the semantic retrieval engine (utils.find_best_clips, *)
(* main.process_message) and the segment splitter                          *)
(* (clip_parser.split_segment_by_words).                                   *)
(*                                                                         *)
(* The specifications share the module's variables; each one drives its    *)
(* own group and leaves the other groups at their initial value:           *)
(*   Spec          catalog builder runs and duplicate resolver runs        *)
(*   SpecRetrieve  find_best_clips and process_message                     *)
(*   SpecSplit     split_segment_by_words                                  *)
(*   SpecConc      one builder run, one resolver --delete run and a        *)
(*                 catalog reader as concurrent processes, the catalog     *)
(*                 file written token by token                             *)
(*   SpecLog       the message reader appending to the Discord log and a   *)
(*                 consumer polling it with read_new_messages              *)
(*   SpecText      the text functions (is_whisper_hallucination,           *)
(*                 split_semantic_beats) applied to an input string        *)
(*   SpecClean     clean_hallucination applied to an input string          *)
(*   SpecFingerprint  fingerprint_similarity applied to two fingerprints   *)
(*   SpecGate      the quality gates of process_audio_file                 *)
(*   SpecSegment   one Whisper segment through process_audio_file          *)
(*   SpecScan      one deduplicator run over a catalog and a clip folder   *)
(*   SpecUI        the clip manager's requests and background jobs         *)
(*   SpecClear     SpecLog's processes beside a clear_log command          *)
(*   SpecLaunch    run.py starting, polling and stopping its children      *)
(***************************************************************************)
EXTENDS Integers, Sequences, FiniteSets

VARIABLES
    \* ---- catalog pipeline ----
    catalog,    \* micro_clips.json: [exists, clips]
    disk,       \* the sliced-clip directory: clip_file -> audio bytes
    pc,         \* "idle" or "builder" (a clip_parser run between two files)
    run,        \* the locals of the clip_parser run in progress
    last,       \* what the last finished run was and what it reported
    \* ---- retrieval ----
    sims,       \* cosine similarity of the beat to each catalog clip (tenths)
    call,       \* the last retrieval call and its arguments
    selected,   \* the clips it returned (catalog positions, in result order)
    \* ---- splitter ----
    seg,        \* the Whisper segment handed to split_segment_by_words
    max_dur,    \* its max_dur argument
    subs,       \* the sub-segments returned
    spc,        \* "input" before the call, "done" after
    \* ---- concurrent processes (with disk) ----
    cbytes,     \* micro_clips.json as the tokens it holds
    bw,         \* the clip_parser process
    rw,         \* the deduplicator --delete process
    rd,         \* what a reader (load_clips) got from the catalog file
    serial,     \* the two writers are serialized externally
    \* ---- message log ----
    mlog,       \* discord_export.txt: [exists, lines]
    cursor,     \* the consumer's last_pos, a byte offset
    got,        \* every message read_new_messages returned so far, in order
    cons,       \* the consumer: whether it runs and what the log held at its start
    \* ---- text functions ----
    arg,        \* the input: a string, or a pair of fingerprints
    ret,        \* the function applied and its result
    \* ---- quality gates ----
    sub_segs,   \* process_audio_file: the sub-segments still to look at
    admitted,   \* its clips list
    exports,    \* the clip files it wrote, in order
    skipped,    \* its skipped counters
    \* ---- clip manager UI ----
    progress,   \* clip_ui.progress: the flag and counters the page polls
    jobs,       \* the background threads the request handler started
    \* ---- launcher ----
    launcher,   \* run.py main: where it is and which child it looks at
    children    \* the subprocesses it started

pipeVars == <<catalog, disk, pc, run, last>>
retrVars == <<sims, call, selected>>
splitVars == <<seg, max_dur, subs, spc>>
concVars == <<cbytes, bw, rw, rd, serial>>
logVars == <<mlog, cursor, got, cons>>
textVars == <<arg, ret>>
gateVars == <<sub_segs, admitted, exports, skipped>>
uiVars == <<progress, jobs>>
launchVars == <<launcher, children>>
vars == <<catalog, disk, pc, run, last, sims, call, selected, seg, max_dur, subs, spc,
          cbytes, bw, rw, rd, serial, mlog, cursor, got, cons, arg, ret,
          sub_segs, admitted, exports, skipped, progress, jobs, launcher, children>>

(***************************************************************************)
(* Generic helpers                                                         *)
(***************************************************************************)
Range(s) == {s[i] : i \in DOMAIN s}

Min2(a, b) == IF a <= b THEN a ELSE b

Max2(a, b) == IF a >= b THEN a ELSE b

\* all sequences over S of length 0..n
SeqsUpTo(S, n) == UNION {[1..k -> S] : k \in 0..n}

(***************************************************************************)
(* Segment splitter: clip_parser.split_segment_by_words                    *)
(* Times are integers (one unit of the timestamp clock).                   *)
(***************************************************************************)
MaxWords == 3
MaxTime == 3
MaxDurBound == 3

\* mutant: the sub-segment's text leaves out the group's first word
SubSegmentWithoutFirst(chunk_start, current_words) ==
    [start |-> chunk_start,
     end   |-> current_words[Len(current_words)].end,
     text  |-> [k \in 1..(Len(current_words) - 1) |-> current_words[k + 1].word]]

\* the sub-segment dict closed from the running group
MakeSubSegment(chunk_start, current_words) ==
    [start |-> chunk_start,
     end   |-> current_words[Len(current_words)].end,
     text  |-> [k \in 1..Len(current_words) |-> current_words[k].word]]

\* mutant: tests the next word's start, not its end
ExceedsMaxDurByStart(w, chunk_start, maxd) == (w.start - chunk_start) > maxd

\* line 79: adding w would stretch the group past max_dur
ExceedsMaxDur(w, chunk_start, maxd) == (w.end - chunk_start) > maxd

\* mutant: the new group keeps the old group's start
StaleChunkStart(w, chunk_start) == chunk_start

\* line 86: the new group starts at the word that did not fit
NextChunkStart(w, chunk_start) == w.start

RECURSIVE SplitLoop(_, _, _, _, _, _)
SplitLoop(words, maxd, i, sub_segments, current_words, chunk_start) ==
    IF i > Len(words)
    THEN IF current_words # <<>>
         THEN Append(sub_segments, MakeSubSegment(chunk_start, current_words))
         ELSE sub_segments
    ELSE LET w == words[i] IN
         IF current_words # <<>> /\ ExceedsMaxDur(w, chunk_start, maxd)
         THEN SplitLoop(words, maxd, i + 1,
                        Append(sub_segments, MakeSubSegment(chunk_start, current_words)),
                        <<w>>, NextChunkStart(w, chunk_start))
         ELSE SplitLoop(words, maxd, i + 1, sub_segments,
                        Append(current_words, w), chunk_start)

split_segment_by_words(segment, maxd) ==
    IF segment.words = <<>>
    THEN <<segment>>
    ELSE SplitLoop(segment.words, maxd, 1, <<>>, <<>>, segment.words[1].start)

\* word timings Whisper can hand over: any start and end on the clock
WordTimings == [start : 0..MaxTime, end : 0..MaxTime]

\* a segment: its words carry distinct tokens (their position)
SegmentOf(timings, s, e) ==
    [start |-> s, end |-> e,
     text  |-> [k \in 1..Len(timings) |-> k],
     words |-> [k \in 1..Len(timings) |->
                  [word |-> k, start |-> timings[k].start, end |-> timings[k].end]]]

Segments ==
    {SegmentOf(t, t[1].start, t[Len(t)].end) : t \in SeqsUpTo(WordTimings, MaxWords) \ {<<>>}}
    \cup {SegmentOf(<<>>, s, e) : s \in 0..MaxTime, e \in 0..MaxTime}

IdleSplit == seg = SegmentOf(<<>>, 0, 0) /\ max_dur = 1 /\ subs = <<>> /\ spc = "input"

InitSplit ==
    /\ seg \in Segments
    /\ max_dur \in 1..MaxDurBound
    /\ subs = <<>>
    /\ spc = "input"

Split ==
    /\ spc = "input"
    /\ subs' = split_segment_by_words(seg, max_dur)
    /\ spc' = "done"
    /\ UNCHANGED <<seg, max_dur>>

(***************************************************************************)
(* Retrieval: utils.find_best_clips and main.process_message               *)
(* A similarity is the cosine in tenths: -10 is -1.0, 6 is 0.6.  A clip is *)
(* named by its position in the catalog list.                              *)
(***************************************************************************)
MaxCatalog == 3
MaxTopN == 3

SEMANTIC_THRESHOLD == 6
MAX_CLIPS_PER_BEAT == 3
MULTI_CLIP_MODE == TRUE

\* the cosine values the embedding model can produce for a (beat, clip) pair
SimValues == {-10, -1, 0, 5, 6, 7, 10}

\* the min_similarity argument; None selects the configured threshold
None == 99
MinSimArgs == SimValues \cup {None}

\* lines 107-109: scored = [(sim, clip), ...] in catalog order
Scored(s) == [i \in 1..Len(s) |-> [sim |-> s[i], clip |-> i]]

\* x goes after every entry whose key is >= its own: equal keys keep their order
RECURSIVE InsertDesc(_, _)
InsertDesc(x, sorted) ==
    IF sorted = <<>> THEN <<x>>
    ELSE IF Head(sorted).sim >= x.sim
         THEN <<Head(sorted)>> \o InsertDesc(x, Tail(sorted))
         ELSE <<x>> \o sorted

RECURSIVE InsertAsc(_, _)
InsertAsc(x, sorted) ==
    IF sorted = <<>> THEN <<x>>
    ELSE IF Head(sorted).sim <= x.sim
         THEN <<Head(sorted)>> \o InsertAsc(x, Tail(sorted))
         ELSE <<x>> \o sorted

RECURSIVE SortWith(_, _, _)
SortWith(asc, scored, acc) ==
    IF scored = <<>> THEN acc
    ELSE SortWith(asc, Tail(scored),
                  IF asc THEN InsertAsc(Head(scored), acc)
                         ELSE InsertDesc(Head(scored), acc))

Reverse(s) == [i \in 1..Len(s) |-> s[Len(s) + 1 - i]]

\* mutant: an ascending stable sort, reversed (ties come out in reverse order)
SortAscThenReverse(scored) == Reverse(SortWith(TRUE, scored, <<>>))

\* line 110: scored.sort(reverse=True, key=...) is stable, also under reverse
SortScored(scored) == SortWith(FALSE, scored, <<>>)

\* s[:n] for n >= 0
Take(s, n) == SubSeq(s, 1, Min2(n, Len(s)))

\* mutant: keeps only the entries strictly above min_similarity
FilterAboveThenSlice(sorted, top_n, min_sim) ==
    Take(SelectSeq(sorted, LAMBDA e : e.sim > min_sim), top_n)

\* line 112: keep the entries at or above min_similarity, then cut to top_n
FilterThenSlice(sorted, top_n, min_sim) ==
    Take(SelectSeq(sorted, LAMBDA e : e.sim >= min_sim), top_n)

\* lines 102-103
EffectiveMinSim(min_similarity) ==
    IF min_similarity = None THEN SEMANTIC_THRESHOLD ELSE min_similarity

find_best_clips(s, top_n, min_similarity) ==
    LET kept == FilterThenSlice(SortScored(Scored(s)), top_n,
                                EffectiveMinSim(min_similarity))
    IN  [k \in 1..Len(kept) |-> kept[k].clip]

\* line 112 of main.py
BeatTopN == IF MULTI_CLIP_MODE THEN MAX_CLIPS_PER_BEAT ELSE 1

\* lines 113-118 of main.py: the first lookup, then the fallback lookup
SelectForBeat(s) ==
    LET first == find_best_clips(s, BeatTopN, None)
    IN  IF first = <<>> THEN find_best_clips(s, 1, 0) ELSE first

IdleRetrieve == sims = <<>> /\ call = [op |-> "none"] /\ selected = <<>>

\* a catalog with embeddings and a beat: any similarity of the beat to each clip
InitRetrieve ==
    /\ sims \in SeqsUpTo(SimValues, MaxCatalog)
    /\ call = [op |-> "none"]
    /\ selected = <<>>

\* one call of find_best_clips
FindBestClips ==
    /\ call.op = "none"
    /\ \E n \in 0..MaxTopN, m \in MinSimArgs :
          /\ call' = [op |-> "find_best_clips", top_n |-> n, min_similarity |-> m]
          /\ selected' = find_best_clips(sims, n, m)
    /\ UNCHANGED sims

\* one iteration of process_message's loop: one beat against the catalog
ProcessBeat ==
    /\ call.op = "none"
    /\ call' = [op |-> "process_message"]
    /\ selected' = SelectForBeat(sims)
    /\ UNCHANGED sims

(***************************************************************************)
(* Strings: a string is a sequence of one-character strings.               *)
(***************************************************************************)
Letters ==
    {"a", "b", "c", "d", "e", "f", "g", "h", "i", "j", "k", "l", "m", "n", "o",
     "p", "q", "r", "s", "t", "u", "v", "w", "x", "y", "z", "H", "P", "T", "Y"}

\* str.isalnum on one character of the model's alphabet
IsAlnum(c) == c \in Letters

\* str.lower on one character
LowerChar(c) ==
    CASE c = "Y" -> "y"
      [] c = "H" -> "h"
      [] c = "P" -> "p"
      [] c = "T" -> "t"
      [] OTHER -> c

Lower(s) == [i \in 1..Len(s) |-> LowerChar(s[i])]

RECURSIVE LStrip(_)
LStrip(s) == IF s # <<>> /\ Head(s) = " " THEN LStrip(Tail(s)) ELSE s

RECURSIVE RStrip(_)
RStrip(s) ==
    IF s # <<>> /\ s[Len(s)] = " " THEN RStrip(SubSeq(s, 1, Len(s) - 1)) ELSE s

\* str.strip
Strip(s) == RStrip(LStrip(s))

\* clip_parser.py line 52: one character of safe_filename
SafeChar(c) == IF IsAlnum(c) \/ c \in {"-", "_", " "} THEN c ELSE "_"

safe_filename(name) == Strip([i \in 1..Len(name) |-> SafeChar(name[i])])

(***************************************************************************)
(* Catalog builder: clip_parser.main and process_audio_file                *)
(***************************************************************************)
MaxClipsPerFile == 2
MaxInputs == 2
MaxLibrary == 2

\* The raw recordings a user may drop into the input folder, in the order
\* sorted(os.listdir(...)) gives them.  stem is os.path.splitext(name)[0].
SourceFiles ==
    << [name |-> "a.mp3",  stem |-> <<"a">>],
       [name |-> "a.wav",  stem |-> <<"a">>],
       [name |-> "b!.mp3", stem |-> <<"b", "!">>] >>

\* transcripts that pass the quality gates (stripped, 4+ alphanumerics); the
\* first two differ in case only
Texts == { <<"Y", "e", "s", "s">>,
           <<"y", "e", "s", "s">>,
           <<"y", "e", "s", "s", "s">> }

\* the bytes an exported clip can hold, named 1..NAudio
NAudio == 2
Audio == 1..NAudio

\* deduplicator.audio_to_fingerprint of those bytes: frames of band energies.
\* 1 and 2 are unlike (cosine 0), 3 sounds like 1 (cosine 0.99), the others
\* are silence.
Fingerprint(a) ==
    CASE a = 1 -> << <<4, 0>>, <<0, 4>> >>
      [] a = 2 -> << <<0, 4>>, <<4, 0>> >>
      [] a = 3 -> << <<4, 0>>, <<0, 3>> >>
      [] OTHER -> << <<0, 0>>, <<0, 0>> >>

\* the catalog's duration of a slice: the slice's own length, in hops
DurationOf(a) == Len(Fingerprint(a))

\* line 260: f"{safe_filename(basename)}_{clip_index:04d}.wav"
ClipFilename(stem, clip_index) == [base |-> safe_filename(stem), idx |-> clip_index]

\* lines 270-280: the catalog entries of one processed file; outcome is the
\* list of admitted sub-segments, each a <<text, exported bytes>>
ClipsOf(file, outcome) ==
    [k \in 1..Len(outcome) |->
        [clip_file   |-> ClipFilename(file.stem, k - 1),
         source_file |-> file.name,
         text        |-> outcome[k][1],
         duration    |-> DurationOf(outcome[k][2])]]

\* line 262: clip_audio.export(clip_path) for each admitted sub-segment
ExportAll(d, file, outcome) ==
    LET written == {ClipFilename(file.stem, k - 1) : k \in 1..Len(outcome)}
        \* a later export to the same path overwrites an earlier one
        lastOf(f) == CHOOSE k \in 1..Len(outcome) :
                        /\ ClipFilename(file.stem, k - 1) = f
                        /\ \A j \in 1..Len(outcome) :
                              ClipFilename(file.stem, j - 1) = f => j <= k
    IN  [f \in (DOMAIN d) \cup written |->
            IF f \in written THEN outcome[lastOf(f)][2] ELSE d[f]]

\* mutant: the key compares the text as written
DedupKeyExact(clip) == <<clip.source_file, clip.text>>

\* line 381: the exact-duplicate key
DedupKey(clip) == <<clip.source_file, Strip(Lower(clip.text))>>

\* lines 377-385: keep the first clip of every key
RECURSIVE Dedupe(_, _, _)
Dedupe(clips, seen, deduped) ==
    IF clips = <<>> THEN deduped
    ELSE IF DedupKey(Head(clips)) \in seen
         THEN Dedupe(Tail(clips), seen, deduped)
         ELSE Dedupe(Tail(clips), seen \cup {DedupKey(Head(clips))},
                     Append(deduped, Head(clips)))

\* line 392
CatalogFiles(clips) == {clips[i].clip_file : i \in DOMAIN clips}

\* lines 394-397: every .wav of the output folder without a catalog entry goes
RemoveOrphans(d, clips) ==
    [f \in (DOMAIN d) \cap CatalogFiles(clips) |-> d[f]]

\* lines 332-334: existing_catalog[src], in catalog order
ExistingOf(loaded, name) == SelectSeq(loaded, LAMBDA c : c.source_file = name)

\* mutant: no file is ever found in the existing catalog
NeverInExisting(loaded, name) == FALSE

\* line 366: filename in existing_catalog
InExisting(loaded, name) == \E i \in DOMAIN loaded : loaded[i].source_file = name

NoRun == [force |-> FALSE, files |-> <<>>, existing |-> <<>>, all_clips |-> <<>>,
          scanned |-> <<>>, handled |-> {}, transcribed |-> {}, rerun |-> FALSE]

NoLast == [op |-> "none", mode |-> "none", outcome |-> "none", dupes |-> <<>>,
           files |-> <<>>, handled |-> {}, failed |-> {}, transcribed |-> {},
           discarded |-> <<>>, missing |-> 0]

\* the audio_files list of a scan: the chosen files in sorted order
RECURSIVE Sorted(_, _)
Sorted(S, i) ==
    IF i > Len(SourceFiles) THEN <<>>
    ELSE (IF i \in S THEN <<SourceFiles[i]>> ELSE <<>>) \o Sorted(S, i + 1)

InputDirs == {S \in SUBSET (1..Len(SourceFiles)) : Cardinality(S) <= MaxInputs}

NamesOf(files) == [i \in 1..Len(files) |-> files[i].name]

\* lines 374-418: dedupe, orphan clean-up, save
Finish(all_clips, mode, files, handled, transcribed) ==
    LET deduped == Dedupe(all_clips, {}, <<>>)
        \* the entries the loop skipped (the run reports how many)
        dropped == SelectSeq(all_clips, LAMBDA c : c \notin Range(deduped))
    IN
    /\ disk' = RemoveOrphans(disk, deduped)
    /\ catalog' = [exists |-> TRUE, clips |-> deduped]
    /\ pc' = "idle"
    /\ run' = NoRun
    /\ last' = [NoLast EXCEPT !.op = "builder", !.mode = mode, !.outcome = "written",
                              !.files = files, !.handled = handled,
                              !.transcribed = transcribed,
                              !.discarded = dropped]

\* clip_parser.py --dedupe (lines 317-324, then 374-418)
BuilderDedupeOnly ==
    /\ pc = "idle"
    /\ IF ~catalog.exists
       THEN /\ last' = [NoLast EXCEPT !.op = "builder", !.mode = "dedupe",
                                      !.outcome = "exit0"]
            /\ UNCHANGED <<catalog, disk, pc, run>>
       ELSE Finish(catalog.clips, "dedupe", <<>>, {}, {})

\* clip_parser.py up to the file loop (lines 326-361)
BuilderStart ==
    /\ pc = "idle"
    /\ \E force \in BOOLEAN, dir \in InputDirs :
          LET audio_files == Sorted(dir, 1)
              mode == IF force THEN "force" ELSE "normal"
          IN  IF audio_files = <<>>
              THEN /\ last' = [NoLast EXCEPT !.op = "builder", !.mode = mode,
                                             !.outcome = "exit0"]
                   /\ UNCHANGED <<catalog, disk, pc, run>>
              ELSE /\ pc' = "builder"
                   /\ run' = [force |-> force, files |-> audio_files,
                              existing |-> IF catalog.exists /\ ~force
                                           THEN catalog.clips ELSE <<>>,
                              all_clips |-> <<>>, scanned |-> NamesOf(audio_files),
                              handled |-> {}, transcribed |-> {},
                              \* the run before this one wrote the catalog
                              \* from the same list of input files
                              rerun |-> /\ last.op = "builder"
                                        /\ last.outcome = "written"
                                        /\ last.files = NamesOf(audio_files)]
                   /\ last' = [NoLast EXCEPT !.op = "builder", !.mode = mode,
                                             !.outcome = "running",
                                             !.files = NamesOf(audio_files)]
                   /\ UNCHANGED <<catalog, disk>>

RunMode == IF run.force THEN "force" ELSE "normal"

\* lines 366-369: a file with catalog entries is carried forward
BuilderSkipFile ==
    /\ pc = "builder" /\ run.files # <<>>
    /\ LET file == Head(run.files) IN
       /\ ~run.force /\ InExisting(run.existing, file.name)
       /\ run' = [run EXCEPT !.files = Tail(@),
                             !.all_clips = @ \o ExistingOf(run.existing, file.name),
                             !.handled = @ \cup {file.name}]
       /\ UNCHANGED <<catalog, disk, pc, last>>

\* the clips the run can still admit: the library holds MaxLibrary clips
Room ==
    LET carried == {i \in DOMAIN run.existing :
                      \E k \in DOMAIN run.files :
                          run.files[k].name = run.existing[i].source_file}
    IN  Max2(0, MaxLibrary - Len(run.all_clips) - Cardinality(carried))

\* lines 371-372: process_audio_file returns the admitted clips
BuilderProcessFile ==
    /\ pc = "builder" /\ run.files # <<>>
    /\ LET file == Head(run.files) IN
       /\ run.force \/ ~InExisting(run.existing, file.name)
       /\ \E outcome \in SeqsUpTo(Texts \X Audio, Min2(MaxClipsPerFile, Room)) :
             /\ disk' = ExportAll(disk, file, outcome)
             /\ run' = [run EXCEPT !.files = Tail(@),
                                   !.all_clips = @ \o ClipsOf(file, outcome),
                                   !.handled = @ \cup {file.name},
                                   !.transcribed = @ \cup {file.name}]
       /\ UNCHANGED <<catalog, pc, last>>

\* line 160: AudioSegment.from_file raises; nothing catches it, the run ends
BuilderDecodeError ==
    /\ pc = "builder" /\ run.files # <<>>
    /\ LET file == Head(run.files) IN
       /\ run.force \/ ~InExisting(run.existing, file.name)
       /\ pc' = "idle"
       /\ run' = NoRun
       /\ last' = [NoLast EXCEPT !.op = "builder", !.mode = RunMode,
                                 !.outcome = "crashed", !.files = run.scanned,
                                 !.handled = run.handled, !.failed = {file.name},
                                 !.transcribed = run.transcribed \cup {file.name}]
       /\ UNCHANGED <<catalog, disk>>

\* the loop is over: lines 374-418
BuilderFinish ==
    /\ pc = "builder" /\ run.files = <<>>
    /\ Finish(run.all_clips, RunMode, run.scanned, run.handled, run.transcribed)

(***************************************************************************)
(* Duplicate resolver: deduplicator.find_duplicates and main               *)
(* A clip of the scan is named by its position in the catalog list.        *)
(***************************************************************************)
\* the --threshold default, in hundredths
DefaultThreshold == 90

RECURSIVE SumSeq(_)
SumSeq(s) == IF s = <<>> THEN 0 ELSE Head(s) + SumSeq(Tail(s))

\* fp[:n].flatten()
RECURSIVE Flatten(_, _)
Flatten(fp, n) ==
    IF n = 0 \/ fp = <<>> THEN <<>> ELSE Head(fp) \o Flatten(Tail(fp), n - 1)

Dot(a, b) == SumSeq([i \in 1..Len(a) |-> a[i] * b[i]])

\* fingerprint_similarity, kept exact: the square of the returned score as
\* the fraction num/den (the score is never negative: band energies are
\* magnitudes)
fingerprint_similarity_sq(fp1, fp2) ==
    IF Len(fp1) = 0 \/ Len(fp2) = 0 THEN [num |-> 0, den |-> 1]
    ELSE LET min_len == Min2(Len(fp1), Len(fp2))
             max_len == Max2(Len(fp1), Len(fp2))
             a == Flatten(fp1, min_len)
             b == Flatten(fp2, min_len)
         IN  IF 2 * min_len < max_len THEN [num |-> 0, den |-> 1]
             ELSE IF Dot(a, a) = 0 \/ Dot(b, b) = 0 THEN [num |-> 0, den |-> 1]
             ELSE [num |-> Dot(a, b) * Dot(a, b) * min_len * min_len,
                   den |-> Dot(a, a) * Dot(b, b) * max_len * max_len]

\* line 229: sim >= threshold
SimAtLeast(simsq, threshold) ==
    simsq.num * 100 * 100 >= threshold * threshold * simsq.den

\* lines 161-165: the clips whose file is on disk
OnDisk(clips, d) == {i \in DOMAIN clips : clips[i].clip_file \in DOMAIN d}

\* raw_bytes_hash of clip i's file: the bytes themselves
HashOf(clips, d, i) == d[clips[i].clip_file]

\* the ascending list of a set of positions
RECURSIVE Ascending(_)
Ascending(S) ==
    IF S = {} THEN <<>>
    ELSE LET m == CHOOSE x \in S : \A y \in S : x <= y
         IN  <<m>> \o Ascending(S \ {m})

RECURSIVE Concat(_)
Concat(ss) == IF ss = <<>> THEN <<>> ELSE Head(ss) \o Concat(Tail(ss))

\* lines 249-257: every hash group, in order of its first clip, keeps its
\* first member and marks the others
ExactDupes(clips, d) ==
    LET present == OnDisk(clips, d)
        group(i) == {j \in present : HashOf(clips, d, j) = HashOf(clips, d, i)}
        leaders == Ascending({i \in present : \A j \in group(i) : i <= j})
        pairsOf(i) == LET rest == Ascending(group(i) \ {i})
                      IN  [k \in 1..Len(rest) |->
                             [keep |-> i, remove |-> rest[k], type |-> "exact"]]
    IN  Concat([k \in 1..Len(leaders) |-> pairsOf(leaders[k])])

\* lines 221-226: the duration pre-filter skips the pair
DurationSkip(dur_i, dur_j) ==
    dur_i > 0 /\ dur_j > 0 /\ 2 * Min2(dur_i, dur_j) < Max2(dur_i, dur_j)

\* lines 209-238: is the pair (i, j), i < j, a waveform duplicate
IsWavePair(clips, d, i, j, threshold) ==
    /\ i \in OnDisk(clips, d) /\ j \in OnDisk(clips, d)
    /\ ~DurationSkip(clips[i].duration, clips[j].duration)
    /\ SimAtLeast(fingerprint_similarity_sq(Fingerprint(HashOf(clips, d, i)),
                                            Fingerprint(HashOf(clips, d, j))),
                  threshold)

\* lines 264-267: keep whichever has more text, the first on a tie
WaveDecision(clips, i, j) ==
    IF Len(clips[i].text) >= Len(clips[j].text)
    THEN [keep |-> i, remove |-> j, type |-> "waveform"]
    ELSE [keep |-> j, remove |-> i, type |-> "waveform"]

\* the pairs (i, j) with i < j in the order the two loops visit them
RECURSIVE PairSeq(_, _, _)
PairSeq(n, i, j) ==
    IF i >= n THEN <<>>
    ELSE IF j > n THEN PairSeq(n, i + 1, i + 2)
    ELSE <<(<<i, j>>)>> \o PairSeq(n, i, j + 1)

WaveDupes(clips, d, threshold) ==
    LET hits == SelectSeq(PairSeq(Len(clips), 1, 2),
                          LAMBDA p : IsWavePair(clips, d, p[1], p[2], threshold))
    IN  [k \in 1..Len(hits) |-> WaveDecision(clips, hits[k][1], hits[k][2])]

\* find_duplicates: the exact pairs, then the waveform pairs
find_duplicates(cat, d, threshold) ==
    IF ~cat.exists \/ cat.clips = <<>> THEN <<>>
    ELSE ExactDupes(cat.clips, d) \o WaveDupes(cat.clips, d, threshold)

\* lines 161-165, 177-178: the entries whose file is missing, counted
MissingCount(cat, d) ==
    IF ~cat.exists THEN 0 ELSE Cardinality((DOMAIN cat.clips) \ OnDisk(cat.clips, d))

\* mutant: every file of the catalog is marked
RemoveEveryFile(clips, dupes) == {clips[i].clip_file : i \in DOMAIN clips}

\* lines 329-333
RemoveFiles(clips, dupes) == {clips[dupes[k].remove].clip_file : k \in DOMAIN dupes}

\* mutant: the marked entries stay in the catalog
CatalogUntouched(clips, remove_files) == clips

\* lines 337-340
CatalogWithout(clips, remove_files) ==
    SelectSeq(clips, LAMBDA c : c.clip_file \notin remove_files)

\* mutant: the test is inverted, the files to keep are the ones deleted
DeleteOthers(d, remove_files) == [f \in (DOMAIN d) \cap remove_files |-> d[f]]

\* lines 352-356
DeleteFiles(d, remove_files) == [f \in (DOMAIN d) \ remove_files |-> d[f]]

\* mutant: the delete flag is not consulted
IgnoreDeleteFlag(delete) == TRUE

\* line 321: if not args.delete: return
DoDelete(delete) == delete

\* deduplicator.main
ResolverRun ==
    /\ pc = "idle"
    /\ \E delete \in BOOLEAN :
          LET dupes == find_duplicates(catalog, disk, DefaultThreshold)
              mode == IF delete THEN "delete" ELSE "preview"
              remove_files == RemoveFiles(catalog.clips, dupes)
          IN  IF dupes = <<>>
              THEN /\ last' = [NoLast EXCEPT !.op = "resolver", !.mode = mode,
                                             !.outcome = "clean",
                                             !.missing = MissingCount(catalog, disk)]
                   /\ UNCHANGED <<catalog, disk, pc, run>>
              ELSE IF ~DoDelete(delete)
              THEN /\ last' = [NoLast EXCEPT !.op = "resolver", !.mode = mode,
                                             !.outcome = "preview", !.dupes = dupes,
                                             !.missing = MissingCount(catalog, disk)]
                   /\ UNCHANGED <<catalog, disk, pc, run>>
              ELSE /\ catalog' = [catalog EXCEPT
                                    !.clips = CatalogWithout(@, remove_files)]
                   /\ disk' = DeleteFiles(disk, remove_files)
                   /\ last' = [NoLast EXCEPT !.op = "resolver", !.mode = mode,
                                             !.outcome = "deleted", !.dupes = dupes,
                                             !.missing = MissingCount(catalog, disk)]
                   /\ UNCHANGED <<pc, run>>

\* A library as a resolver run can find it: any catalog of up to MaxScan
\* entries over the clip files of one recording, each file absent from the
\* folder (removed by hand, or never written) or holding some audio.
MaxScan == 3

ScanFiles == {ClipFilename(<<"a">>, k) : k \in 0..(MaxScan - 1)}

ScanTexts == { <<"y", "e", "s", "s">>, <<"y", "e", "s", "s", "s">> }

ScanClips ==
    [clip_file : ScanFiles, source_file : {"a.mp3"}, text : ScanTexts, duration : {2}]

ScanDisks == UNION {[F -> Audio] : F \in SUBSET ScanFiles}

InitScan ==
    /\ catalog \in [exists : {TRUE}, clips : SeqsUpTo(ScanClips, MaxScan)]
    /\ disk \in ScanDisks
    /\ pc = "idle"
    /\ run = NoRun
    /\ last = NoLast

(***************************************************************************)
(* Text functions: utils.is_whisper_hallucination and                      *)
(* utils.split_semantic_beats, applied to an input string                  *)
(***************************************************************************)
NoResult ==
    [fn |-> "none", flag |-> FALSE, beats |-> <<>>, text |-> <<>>,
     sim |-> [num |-> 0, den |-> 1]]

IdleText == arg = <<>> /\ ret = NoResult

\* \s and \w of the patterns, on the model's alphabet
IsSpace(c) == c = " "

IsWord(c) == IsAlnum(c) \/ c = "_"

\* text[i:].startswith(tok), positions counted from 1
StartsWithAt(text, i, tok) ==
    /\ i >= 1
    /\ i + Len(tok) - 1 <= Len(text)
    /\ \A k \in 1..Len(tok) : text[i + k - 1] = tok[k]

\* re.search of a literal
Contains(text, tok) == \E i \in 1..Len(text) : StartsWithAt(text, i, tok)

\* the first position from i on that does not hold a character of the class
RECURSIVE SkipWhile(_, _, _)
SkipWhile(text, i, class) ==
    IF i <= Len(text) /\ text[i] \in class THEN SkipWhile(text, i + 1, class) ELSE i

\* \b between positions i - 1 and i
WordBoundaryAt(text, i) ==
    (i <= Len(text) /\ IsWord(text[i])) # (i > 1 /\ IsWord(text[i - 1]))

\* (\btok\s*){n,} anchored at i
RECURSIVE RepeatsAt(_, _, _, _)
RepeatsAt(text, i, tok, n) ==
    IF n = 0 THEN TRUE
    ELSE /\ WordBoundaryAt(text, i)
         /\ StartsWithAt(text, i, tok)
         /\ RepeatsAt(text, SkipWhile(text, i + Len(tok), {" "}), tok, n - 1)

RepeatedWord(text, tok, n) == \E i \in 1..Len(text) : RepeatsAt(text, i, tok, n)

\* lit (filler* lit){n} anchored at i, filler a class of characters
RECURSIVE ChainAt(_, _, _, _, _)
ChainAt(text, i, lit, filler, n) ==
    /\ StartsWithAt(text, i, lit)
    /\ n = 0 \/ ChainAt(text, SkipWhile(text, i + Len(lit), filler), lit, filler, n - 1)

Chained(text, lit, filler, n) == \E i \in 1..Len(text) : ChainAt(text, i, lit, filler, n)

\* lines 128-140: _HALLUCINATION_PATTERNS, all but the last with re.IGNORECASE;
\* the note sign of the last pattern is written "~"
MatchesPattern(text) ==
    LET low == Lower(text) IN
    \/ RepeatedWord(low, <<"h", "a">>, 5)
    \/ RepeatedWord(low, <<"h", "a", "h", "a">>, 4)
    \/ RepeatedWord(low, <<"l", "o", "l">>, 4)
    \/ RepeatedWord(low, <<"u", "m">>, 5)
    \/ RepeatedWord(low, <<"u", "h">>, 5)
    \/ Chained(low, <<"t", "h", "a", "n", "k", " ", "y", "o", "u">>, {".", " "}, 2)
    \/ Contains(low, <<"p", "l", "e", "a", "s", "e", " ",
                       "s", "u", "b", "s", "c", "r", "i", "b", "e">>)
    \/ Contains(low, <<"l", "i", "k", "e", " ", "a", "n", "d", " ",
                       "s", "u", "b", "s", "c", "r", "i", "b", "e">>)
    \/ Contains(low, <<"s", "e", "e", " ", "y", "o", "u", " ", "i", "n", " ",
                       "t", "h", "e", " ", "n", "e", "x", "t">>)
    \/ Chained(low, <<"[", "m", "u", "s", "i", "c", "]">>, {" "}, 1)
    \/ Contains(text, <<"~">>)

\* lines 163-169: a chunk of 8 to 30 characters three times in a row; the
\* start i runs over range(len(text) - 3 * length)
RepeatsLongChunk(text) ==
    \E length \in 8..30 :
        \E i \in 1..(Len(text) - 3 * length) :
            /\ SubSeq(text, i, i + length - 1) = SubSeq(text, i + length, i + 2 * length - 1)
            /\ SubSeq(text, i, i + length - 1)
                  = SubSeq(text, i + 2 * length, i + 3 * length - 1)

\* lines 153 and 172
HallucinationMinLen == 50
SuspiciousLen == 500

is_whisper_hallucination(text) ==
    IF Len(text) = 0 \/ Len(text) < HallucinationMinLen THEN FALSE
    ELSE \/ MatchesPattern(text)
         \/ RepeatsLongChunk(text)
         \/ Len(text) > SuspiciousLen

\* text[:n]
Prefix(text, n) == SubSeq(text, 1, Min2(n, Len(text)))

\* lines 185-187: chunk == next_chunk for the chunk of the given length that
\* starts at i (counted from 1)
ChunkRepeatsAt(text, i, length) ==
    /\ i + 2 * length - 1 <= Len(text)
    /\ SubSeq(text, i, i + length - 1) = SubSeq(text, i + length, i + 2 * length - 1)

\* lines 183-190: the <<length, i>> the two loops stop at, in their order;
\* i runs over range(len(text) - 2 * length)
CleanStops(text) ==
    {p \in (2..20) \X (1..Len(text)) :
        /\ p[2] <= Len(text) - 2 * p[1]
        /\ ChunkRepeatsAt(text, p[2], p[1])
        /\ Strip(Prefix(text, p[2] - 1)) # <<>>}

\* utils.py lines 178-191
clean_hallucination(text) ==
    LET stops == CleanStops(text) IN
    IF stops = {} THEN Strip(Prefix(text, 100))
    ELSE LET first == CHOOSE p \in stops :
                         \A q \in stops :
                             p[1] < q[1] \/ (p[1] = q[1] /\ p[2] <= q[2])
         IN  Strip(Prefix(text, first[2] - 1))

\* line 63: [.!?;]
Separators == {".", "!", "?", ";"}

\* line 63: the words of \s+but\s+ | \s+and\s+ | \s+so\s+ | \s+then\s+
Conjunctions ==
    { <<"b", "u", "t">>, <<"a", "n", "d">>, <<"s", "o">>, <<"t", "h", "e", "n">> }

\* a match of \s+word\s+ that starts at i: the position after it, or 0
ConjunctionAt(text, i) ==
    IF i > Len(text) \/ ~IsSpace(text[i]) THEN 0
    ELSE LET j == SkipWhile(text, i, {" "})
             hits == {c \in Conjunctions :
                         /\ StartsWithAt(text, j, c)
                         /\ j + Len(c) <= Len(text)
                         /\ IsSpace(text[j + Len(c)])}
         IN  IF hits = {} THEN 0
             ELSE LET c == CHOOSE c \in hits : TRUE
                  IN  SkipWhile(text, j + Len(c), {" "})

\* re.split(split_regex, text): the pieces between the matches, left to right
RECURSIVE SplitPieces(_, _, _, _)
SplitPieces(text, i, from, pieces) ==
    IF i > Len(text) THEN Append(pieces, SubSeq(text, from, Len(text)))
    ELSE IF text[i] \in Separators
    THEN SplitPieces(text, i + 1, i + 1, Append(pieces, SubSeq(text, from, i - 1)))
    ELSE IF ConjunctionAt(text, i) # 0
    THEN SplitPieces(text, ConjunctionAt(text, i), ConjunctionAt(text, i),
                     Append(pieces, SubSeq(text, from, i - 1)))
    ELSE SplitPieces(text, i + 1, from, pieces)

\* mutant: the pieces are returned as they are, the fall-back included
AllPiecesStripped(text) ==
    LET pieces == SplitPieces(text, 1, 1, <<>>)
    IN  [k \in 1..Len(pieces) |-> Strip(pieces[k])]

\* lines 63-64
split_semantic_beats(text) ==
    LET pieces == SplitPieces(text, 1, 1, <<>>)
        beats == SelectSeq([k \in 1..Len(pieces) |-> Strip(pieces[k])],
                           LAMBDA b : b # <<>>)
    IN  IF beats # <<>> THEN beats ELSE <<Strip(text)>>

\* the transcripts is_whisper_hallucination is tried on
EmptyText == <<>>

HaShort ==
    <<"h", "a", " ", "h", "a", " ", "h", "a", " ", "h", "a", " ", "h", "a",
      " ", "h", "a">>

SubscribeShort ==
    <<"p", "l", "e", "a", "s", "e", " ", "s", "u", "b", "s", "c", "r", "i",
      "b", "e", " ", "a", "n", "d", " ", "h", "i", "t", " ", "t", "h", "e",
      " ", "b", "e", "l", "l">>

NormalSentence ==
    <<"t", "h", "e", " ", "q", "u", "i", "c", "k", " ", "b", "r", "o", "w",
      "n", " ", "f", "o", "x", " ", "j", "u", "m", "p", "s", " ", "o", "v",
      "e", "r", " ", "t", "h", "e", " ", "l", "a", "z", "y", " ", "d", "o",
      "g", " ", "w", "h", "i", "l", "e", " ", "a", " ", "c", "a", "t", " ",
      "n", "a", "p", "s", " ", "o", "n", " ", "t", "h", "e", " ", "s", "u",
      "n", "n", "y", " ", "p", "o", "r", "c", "h", "s">>

HaLong ==
    <<"H", "a", " ", "h", "a", " ", "h", "a", " ", "h", "a", " ", "h", "a",
      " ", "h", "a", " ", "h", "a", " ", "h", "a", " ", "h", "a", " ", "h",
      "a", " ", "h", "a", " ", "h", "a", " ", "h", "a", " ", "h", "a", " ",
      "h", "a", " ", "h", "a", " ", "h", "a">>

SubscribeLong ==
    <<"i", "f", " ", "y", "o", "u", " ", "l", "i", "k", "e", "d", " ", "t",
      "h", "i", "s", " ", "v", "i", "d", "e", "o", " ", "P", "l", "e", "a",
      "s", "e", " ", "s", "u", "b", "s", "c", "r", "i", "b", "e", " ", "a",
      "n", "d", " ", "h", "i", "t", " ", "t", "h", "e", " ", "b", "e", "l",
      "l">>

LoopLong ==
    <<"a", "b", "c", "d", "e", "f", "g", "h", "a", "b", "c", "d", "e", "f",
      "g", "h", "a", "b", "c", "d", "e", "f", "g", "h", "a", "b", "c", "d",
      "e", "f", "g", "h", "a", "b", "c", "d", "e", "f", "g", "h", "a", "b",
      "c", "d", "e", "f", "g", "h", "a", "b", "c", "d", "e", "f", "g", "h">>

ThanksLong ==
    <<"T", "h", "a", "n", "k", " ", "y", "o", "u", ".", " ", "T", "h", "a",
      "n", "k", " ", "y", "o", "u", ".", " ", "t", "h", "a", "n", "k", " ",
      "y", "o", "u", " ", "f", "o", "r", " ", "w", "a", "t", "c", "h", "i",
      "n", "g", " ", "t", "h", "i", "s", " ", "v", "i", "d", "e", "o", " ",
      "t", "o", "d", "a", "y">>

\* 50 characters that end in three copies of a chunk of 8
TailLoop ==
    <<"a", "b", "a", "c", "a", "b", "c", "a", "c", "b", "a", "b", "c", "a",
      "b", "a", "c", "a", "b", "c", "a", "c", "b", "a", "c", "a", "a", "b",
      "c", "d", "e", "f", "g", "h", "a", "b", "c", "d", "e", "f", "g", "h",
      "a", "b", "c", "d", "e", "f", "g", "h">>

\* 105 characters without an immediate repeat
LongPlain ==
    <<"a", "b", "a", "c", "a", "b", "c", "a", "c", "b", "a", "b", "c", "a",
      "b", "a", "c", "a", "b", "c", "a", "c", "b", "a", "c", "a", "b", "a",
      "c", "b", "a", "b", "c", "a", "b", "a", "c", "a", "b", "c", "a", "c",
      "b", "a", "b", "c", "a", "b", "a", "c", "b", "a", "b", "c", "a", "c",
      "b", "a", "c", "a", "b", "a", "c", "b", "a", "b", "c", "a", "b", "a",
      "c", "a", "b", "c", "a", "c", "b", "a", "b", "c", "b", "a", "c", "a",
      "b", "a", "c", "b", "a", "b", "c", "a", "b", "a", "c", "a", "b", "c",
      "a", "c", "b", "a", "c", "a", "b">>

Transcripts ==
    {EmptyText, HaShort, SubscribeShort, NormalSentence, HaLong, SubscribeLong,
     LoopLong, ThanksLong, TailLoop}

\* the transcripts clean_hallucination is tried on
MaxGarble == 5

Garbles == SeqsUpTo({"a", "b", "c", " "}, MaxGarble) \cup {LongPlain}

InitGarbles ==
    /\ arg \in Garbles
    /\ ret = NoResult

\* the messages split_semantic_beats is tried on: up to MaxAtoms pieces
MaxAtoms == 5

Atoms == { <<"a">>, <<" ">>, <<".">>, <<"!">>, <<"b", "u", "t">>, <<"s", "o">> }

Messages == {Concat(m) : m \in SeqsUpTo(Atoms, MaxAtoms)}

InitText ==
    /\ arg \in Transcripts \cup Messages
    /\ ret = NoResult

ApplyHallucinationCheck ==
    /\ ret.fn = "none"
    /\ ret' = [NoResult EXCEPT !.fn = "is_whisper_hallucination",
                               !.flag = is_whisper_hallucination(arg)]
    /\ UNCHANGED arg

ApplyClean ==
    /\ ret.fn = "none"
    /\ ret' = [NoResult EXCEPT !.fn = "clean_hallucination",
                               !.text = clean_hallucination(arg)]
    /\ UNCHANGED arg

ApplySplitBeats ==
    /\ ret.fn = "none"
    /\ ret' = [NoResult EXCEPT !.fn = "split_semantic_beats",
                               !.beats = split_semantic_beats(arg)]
    /\ UNCHANGED arg

\* The fingerprints audio_to_fingerprint can return for a clip with samples:
\* 1 to MaxFrames frames of band energies (lines 59-84).  A clip of silence
\* has peak 0, is not normalized, and gives frames of zeros (lines 52-54).
MaxFrames == 2

Frames == [1..2 -> {0, 1, 2}]

Fingerprints == SeqsUpTo(Frames, MaxFrames) \ {<<>>}

InitFingerprints ==
    /\ arg \in Fingerprints \X Fingerprints
    /\ ret = NoResult

ApplySimilarity ==
    /\ ret.fn = "none"
    /\ ret' = [NoResult EXCEPT !.fn = "fingerprint_similarity",
                               !.sim = fingerprint_similarity_sq(arg[1], arg[2])]
    /\ UNCHANGED arg

(***************************************************************************)
(* Quality gates: the sub-segment loop of clip_parser.process_audio_file   *)
(* with utils.is_transcript_too_short, is_clip_too_quiet and               *)
(* enhance_transcript.  Times are in milliseconds, loudness in hundredths  *)
(* of a dB.                                                                *)
(***************************************************************************)
\* config.py lines 46, 83, 84
MIN_CLIP_DURATION == 300
MIN_TRANSCRIPT_LENGTH == 4
MIN_CLIP_ENERGY_DB == -45

\* dBFS of a slice without signal (-inf)
Silence == -100000

WordChars == Letters \cup {"_"}

AllOf(s, chars) == \A k \in 1..Len(s) : s[k] \in chars

\* prefix c+
PlusAfter(w, prefix, c) ==
    /\ Len(w) > Len(prefix)
    /\ SubSeq(w, 1, Len(prefix)) = prefix
    /\ AllOf(SubSeq(w, Len(prefix) + 1, Len(w)), {c})

\* h v+ h [vh]+
Chuckle(w, v) ==
    \E k \in 1..Len(w) :
        /\ Len(w) >= k + 3
        /\ w[1] = "h"
        /\ AllOf(SubSeq(w, 2, k + 1), {v})
        /\ w[k + 2] = "h"
        /\ AllOf(SubSeq(w, k + 3, Len(w)), {v, "h"})

\* utils.py lines 200-232: _VOCAL_SOUNDS, the word each pattern takes
\* (re.IGNORECASE: w is lowered)
SoundWord(kind, w) ==
    CASE kind = "laughter1" ->
            \/ Chuckle(w, "a")
            \/ Chuckle(w, "e")
            \/ PlusAfter(w, <<"h", "e", "h">>, "e")
            \/ PlusAfter(w, <<"h", "a", "h">>, "a")
            \/ PlusAfter(w, <<"h", "a">>, "h")
      [] kind = "laughter2" ->
            \E v \in {"a", "e", "i", "o"} : PlusAfter(w, <<v, "h", v>>, "h")
      [] kind = "giggle" ->
            \/ PlusAfter(w, <<"t", "e", "h">>, "e")
            \/ PlusAfter(w, <<"t", "e", "e", "h", "e">>, "e")
            \/ PlusAfter(w, <<"h", "i", "h", "i", "h">>, "i")
      [] kind = "sigh" ->
            \/ PlusAfter(w, <<"s", "i", "g">>, "h")
            \/ /\ Len(w) > 1 /\ w[Len(w)] = "s"
               /\ PlusAfter(SubSeq(w, 1, Len(w) - 1), <<"s", "i", "g">>, "h")
      [] kind = "gasp" ->
            \/ PlusAfter(w, <<"o">>, "h")
            \/ PlusAfter(w, <<"a">>, "h")
            \/ PlusAfter(w, <<"w", "h", "o">>, "a")
      [] kind = "groan" ->
            \/ PlusAfter(w, <<"u", "g">>, "h")
            \/ PlusAfter(w, <<"u", "r", "g">>, "h")
            \/ PlusAfter(w, <<"a", "r", "g">>, "h")

Replacement(kind) ==
    CASE kind \in {"laughter1", "laughter2"} -> <<"*", "l", "a", "u", "g", "h", "s", "*">>
      [] kind = "giggle" -> <<"*", "g", "i", "g", "g", "l", "e", "s", "*">>
      [] kind = "sigh" -> <<"*", "s", "i", "g", "h", "s", "*">>
      [] kind = "gasp" -> <<"*", "g", "a", "s", "p", "s", "*">>
      [] kind = "groan" -> <<"*", "g", "r", "o", "a", "n", "s", "*">>

\* the length of the pattern's match that starts at i, 0 for none: \b(...)\b
\* takes a whole word; the gasp patterns end in "!" and then need a word
\* character behind it
MatchLen(kind, text, i) ==
    IF ~(IsWord(text[i]) /\ WordBoundaryAt(text, i)) THEN 0
    ELSE LET j == SkipWhile(text, i, WordChars)
             w == Lower(SubSeq(text, i, j - 1))
         IN  IF ~SoundWord(kind, w) THEN 0
             ELSE IF kind # "gasp" THEN j - i
             ELSE IF /\ j + 1 <= Len(text)
                     /\ text[j] = "!"
                     /\ IsWord(text[j + 1])
                  THEN j - i + 1
                  ELSE 0

\* line 258: pattern.sub(replacement, enhanced)
RECURSIVE SubPass(_, _, _, _)
SubPass(kind, text, i, out) ==
    IF i > Len(text) THEN out
    ELSE IF MatchLen(kind, text, i) > 0
    THEN SubPass(kind, text, i + MatchLen(kind, text, i), out \o Replacement(kind))
    ELSE SubPass(kind, text, i + 1, Append(out, text[i]))

SoundKinds == <<"laughter1", "laughter2", "giggle", "sigh", "gasp", "groan">>

RECURSIVE VocalSounds(_, _)
VocalSounds(text, k) ==
    IF k > Len(SoundKinds) THEN text
    ELSE VocalSounds(SubPass(SoundKinds[k], text, 1, <<>>), k + 1)

\* lines 261, 263-265: every run of at least least characters of the class
\* becomes with
RECURSIVE SquashRuns(_, _, _, _, _, _)
SquashRuns(text, i, class, least, with, out) ==
    IF i > Len(text) THEN out
    ELSE LET j == SkipWhile(text, i, class) IN
         IF j - i >= least
         THEN SquashRuns(text, j, class, least, with, out \o with)
         ELSE SquashRuns(text, i + 1, class, least, with, Append(out, text[i]))

IsUpper(c) == c \in Letters /\ LowerChar(c) # c

\* line 262: re.sub(r"([.!?,])([A-Z])", r"\1 \2", enhanced)
RECURSIVE SpaceAfterPunct(_, _, _)
SpaceAfterPunct(text, i, out) ==
    IF i > Len(text) THEN out
    ELSE IF /\ text[i] \in {".", "!", "?", ","}
            /\ i + 1 <= Len(text) /\ IsUpper(text[i + 1])
    THEN SpaceAfterPunct(text, i + 2, out \o <<text[i], " ", text[i + 1]>>)
    ELSE SpaceAfterPunct(text, i + 1, Append(out, text[i]))

\* utils.py lines 241-267
enhance_transcript(text) ==
    IF text = <<>> THEN text
    ELSE LET sounds == VocalSounds(text, 1)
             spaced == SquashRuns(sounds, 1, {" "}, 1, <<" ">>, <<>>)
             punct  == SpaceAfterPunct(spaced, 1, <<>>)
             dots   == SquashRuns(punct, 1, {"."}, 2, <<".", ".", ".">>, <<>>)
             bangs  == SquashRuns(dots, 1, {"!"}, 2, <<"!">>, <<>>)
             asks   == SquashRuns(bangs, 1, {"?"}, 2, <<"?">>, <<>>)
         IN  Strip(asks)

\* len(re.sub(r"[^a-zA-Z0-9]", "", text))
AlnumCount(text) == Len(SelectSeq(text, IsAlnum))

\* utils.py lines 361-367
is_transcript_too_short(text) == AlnumCount(text) < MIN_TRANSCRIPT_LENGTH

\* mutant: the loudness gate lets everything through
NeverTooQuiet(dbfs) == FALSE

\* utils.py lines 353-358: audio_segment.dBFS < config.MIN_CLIP_ENERGY_DB
is_clip_too_quiet(dbfs) == dbfs < MIN_CLIP_ENERGY_DB * 100

\* round(clip_audio.dBFS, 1): hundredths to tenths of a dB
RoundTenths(dbfs) == (dbfs + 5) \div 10

\* the sub-segments of one recording, by <<start, end>>; the float
\* difference end - start of the spans in RoundsBelow falls below the exact
\* one (1.2 - 0.9 = 0.29999999999999993)
Spans == { <<0, 290>>, <<0, 300>>, <<900, 1200>>, <<0, 1000>> }

RoundsBelow == { <<900, 1200>> }

Utterances ==
    { <<>>,
      <<" ", "y", "e", "s", "s", " ">>,
      <<"y", "e", "s", "!">>,
      <<"h", "a", "h", "a", "h", "a", "h", "a">>,
      <<"u", "g", "h", "!", "!">> }

Loudness == {Silence, -4504, -4500, -4496}

SubSegments ==
    {[start |-> sp[1], end |-> sp[2], text |-> t, dbfs |-> d] :
        sp \in Spans, t \in Utterances, d \in Loudness}

MaxSubs == 2

NoSkips == [hallucination |-> 0, too_short |-> 0, too_quiet |-> 0, too_brief |-> 0]

IdleGate == sub_segs = <<>> /\ admitted = <<>> /\ exports = <<>> /\ skipped = NoSkips

InitGate ==
    /\ sub_segs \in SeqsUpTo(SubSegments, MaxSubs)
    /\ admitted = <<>> /\ exports = <<>> /\ skipped = NoSkips

\* line 231: sub_dur < min_dur, sub_dur the float end - start
TooBrief(sub) ==
    \/ sub.end - sub.start < MIN_CLIP_DURATION
    \/ sub.end - sub.start = MIN_CLIP_DURATION /\ <<sub.start, sub.end>> \in RoundsBelow

\* lines 270-279
ClipMeta(sub, sub_text, clip_index) ==
    [clip_index    |-> clip_index,
     text          |-> sub_text,
     text_original |-> Strip(sub.text),
     start         |-> sub.start,
     end           |-> sub.end,
     duration      |-> sub.end - sub.start,
     energy_db     |-> RoundTenths(sub.dbfs)]

\* lines 227-283: one iteration of the loop over sub_segs
LookAtSubSegment ==
    /\ sub_segs # <<>>
    /\ sub_segs' = Tail(sub_segs)
    /\ LET sub == Head(sub_segs)
           sub_text == Strip(sub.text)
       IN  IF TooBrief(sub) \/ sub_text = <<>>
           THEN /\ skipped' = [skipped EXCEPT !.too_brief = @ + 1]
                /\ UNCHANGED <<admitted, exports>>
           ELSE IF is_transcript_too_short(sub_text)
           THEN /\ skipped' = [skipped EXCEPT !.too_short = @ + 1]
                /\ UNCHANGED <<admitted, exports>>
           ELSE IF is_clip_too_quiet(sub.dbfs)
           THEN /\ skipped' = [skipped EXCEPT !.too_quiet = @ + 1]
                /\ UNCHANGED <<admitted, exports>>
           ELSE \* lines 260-268: the slice is exported; the Discord processing
                \* rewrites that file in place, its name and span stay
                /\ exports' = Append(exports, [clip_index |-> Len(admitted),
                                               start |-> sub.start,
                                               end |-> sub.end,
                                               dbfs |-> sub.dbfs])
                /\ admitted' = Append(admitted,
                                      ClipMeta(sub, enhance_transcript(sub_text),
                                               Len(admitted)))
                /\ UNCHANGED skipped

(***************************************************************************)
(* One Whisper segment through process_audio_file: the hallucination       *)
(* check, the split by duration, the phrase clips, then the gates.         *)
(* Times are in milliseconds.                                              *)
(***************************************************************************)
\* config.py lines 47, 56
MAX_CLIP_DURATION == 8000
MAX_PHRASE_WORDS == 4

\* " ".join(w.strip() for w in ws)
RECURSIVE JoinWords(_)
JoinWords(ws) ==
    IF ws = <<>> THEN <<>>
    ELSE IF Len(ws) = 1 THEN Strip(ws[1])
    ELSE Strip(ws[1]) \o <<" ">> \o JoinWords(Tail(ws))

\* lines 116-134: the n-grams of n words, left to right
PhrasesOf(words, n) ==
    LET all == [i \in 1..Max2(0, Len(words) - n + 1) |->
                  [start |-> words[i].start,
                   end   |-> words[i + n - 1].end,
                   text  |-> JoinWords([k \in 1..n |-> words[i + k - 1].word])]]
    IN  SelectSeq(all, LAMBDA ph :
            /\ ~(n = 1 /\ ph.end - ph.start < 200)
            /\ Len(Strip(ph.text)) >= 2)

\* clip_parser.py lines 99-136
create_phrase_clips(segment, phrase_size) ==
    IF segment.words = <<>> THEN <<>>
    ELSE Concat([n \in 1..phrase_size |-> PhrasesOf(segment.words, n)])

\* the words Whisper hears: each comes with its leading blank
Heard(w) == <<" ">> \o w

LeadWords ==
    { << <<"w", "e">>, <<"w", "i", "l", "l">>, <<"m", "e", "e", "t">>,
         <<"a", "g", "a", "i", "n">>, <<"o", "k", "a", "y">> >>,
      << <<"o", "k", "a", "y">> >>,
      << <<"w", "e">> >> }

\* the outro Whisper invents over silence
Outro == << <<"p", "l", "e", "a", "s", "e">>,
            <<"s", "u", "b", "s", "c", "r", "i", "b", "e">> >>

RECURSIVE Copies(_, _)
Copies(ws, n) == IF n = 0 THEN <<>> ELSE ws \o Copies(ws, n - 1)

\* a segment of evenly spaced words; its text is the words as heard
HeardSegment(ws, word_ms) ==
    [start |-> 0,
     end   |-> Len(ws) * word_ms,
     text  |-> Concat([k \in 1..Len(ws) |-> Heard(ws[k])]),
     words |-> [k \in 1..Len(ws) |->
                  [word |-> Heard(ws[k]), start |-> (k - 1) * word_ms,
                   end |-> k * word_ms]]]

MaxOutros == 3

HeardSegments ==
    {HeardSegment(lead \o Copies(Outro, n), word_ms) :
        lead \in LeadWords, n \in {0, MaxOutros}, word_ms \in {150, 500, 1500}}

InitSegment ==
    /\ seg \in HeardSegments
    /\ max_dur = MAX_CLIP_DURATION
    /\ subs = <<>>
    /\ spc = "input"
    /\ IdleGate

\* lines 215-217 and 207-208: the sub-segments before the phrase clips
WholeOrSplit(segment, seg_text, maxd) ==
    IF segment.end - segment.start > maxd
    THEN LET parts == split_segment_by_words(segment, maxd)
         IN  [k \in 1..Len(parts) |->
                [start |-> parts[k].start, end |-> parts[k].end,
                 text |-> IF segment.words = <<>> THEN parts[k].text
                          ELSE JoinWords(parts[k].text)]]
    ELSE << [start |-> segment.start, end |-> segment.end, text |-> seg_text] >>

\* lines 219-225: the phrase clips that differ from every sub-segment
WithPhrases(segment, sub_list) ==
    LET full_texts == {Strip(Lower(sub_list[k].text)) : k \in 1..Len(sub_list)}
        phrase_clips == create_phrase_clips(segment, MAX_PHRASE_WORDS)
    IN  sub_list \o SelectSeq(phrase_clips,
                              LAMBDA ph : Strip(Lower(ph.text)) \notin full_texts)

\* lines 188-225 for one segment; the slices of the recording are all as
\* loud as dbfs
SliceSegment ==
    /\ spc = "input"
    /\ spc' = "done"
    /\ LET seg_text == Strip(seg.text)
           flagged == is_whisper_hallucination(seg_text)
           cleaned == clean_hallucination(seg_text)
       IN  IF seg_text = <<>> \/ seg.end - seg.start < MIN_CLIP_DURATION
           THEN /\ skipped' = [skipped EXCEPT !.too_brief = @ + 1]
                /\ UNCHANGED sub_segs
           ELSE IF flagged /\ is_transcript_too_short(cleaned)
           THEN /\ skipped' = [skipped EXCEPT !.hallucination = @ + 1]
                /\ UNCHANGED sub_segs
           ELSE \E dbfs \in {-4504, -1234} :
                  LET kept == IF flagged THEN cleaned ELSE seg_text
                      found == WithPhrases(seg, WholeOrSplit(seg, kept, max_dur))
                  IN  /\ sub_segs' = [k \in 1..Len(found) |->
                                        [start |-> found[k].start, end |-> found[k].end,
                                         text |-> found[k].text, dbfs |-> dbfs]]
                      /\ UNCHANGED skipped
    /\ UNCHANGED <<seg, max_dur, subs, admitted, exports>>

(***************************************************************************)
(* The other entry points: how they start and how they end                 *)
(***************************************************************************)
\* config.BOT_TOKEN: empty as shipped, or set by the user
BotTokens == {"", "token"}

\* main.load_clips, lines 35-46: no catalog or no clip ends the engine at once
PlaybackStart ==
    /\ pc = "idle"
    /\ last' = [NoLast EXCEPT !.op = "playback",
                              !.outcome = IF ~catalog.exists THEN "exit1"
                                          ELSE IF catalog.clips = <<>> THEN "exit1"
                                          ELSE "stopped"]
    /\ UNCHANGED <<catalog, disk, pc, run>>

\* helper.main, lines 27-33: only the missing catalog ends the helper
HelperStart ==
    /\ pc = "idle"
    /\ last' = [NoLast EXCEPT !.op = "helper",
                              !.outcome = IF ~catalog.exists THEN "exit1"
                                          ELSE "stopped"]
    /\ UNCHANGED <<catalog, disk, pc, run>>

\* read_messages.py, lines 150-177: the token check, then client.run
MessageReaderStart ==
    /\ pc = "idle"
    /\ \E token \in BotTokens, login_ok \in BOOLEAN :
          last' = [NoLast EXCEPT !.op = "reader",
                                 !.mode = IF token = "" THEN "no_token" ELSE "token",
                                 !.outcome = IF token = "" THEN "exit1"
                                             ELSE IF login_ok THEN "stopped"
                                             ELSE "exit1"]
    /\ UNCHANGED <<catalog, disk, pc, run>>

\* the exit status of a finished process: sys.exit(1) and an uncaught
\* exception give 1, a return from main or sys.exit(0) gives 0
ExitStatus(l) == IF l.outcome \in {"exit1", "crashed"} THEN 1 ELSE 0

(***************************************************************************)
(* Concurrent processes on the catalog file and the clip folder            *)
(* The file is a sequence of tokens: a head (the fields before "clips"),   *)
(* one token per clip, a tail.  open(path, "w") truncates it; json.dump    *)
(* writes through a buffer that reaches the file in one or more pieces.    *)
(***************************************************************************)
MaxNewClips == 1

NoClip == [clip_file |-> [base |-> <<>>, idx |-> 0], source_file |-> "",
           text |-> <<>>, duration |-> 0]

Token(kind, clip) == [kind |-> kind, clip |-> clip]

\* json.dump(catalog, f, ...): the text of a catalog
Serialize(clips) ==
    <<Token("head", NoClip)>>
        \o [k \in 1..Len(clips) |-> Token("clip", clips[k])]
        \o <<Token("tail", NoClip)>>

\* json.load(f) succeeds on the text
Parses(bytes) ==
    /\ Len(bytes) >= 2
    /\ bytes[1].kind = "head"
    /\ bytes[Len(bytes)].kind = "tail"
    /\ \A k \in 2..(Len(bytes) - 1) : bytes[k].kind = "clip"

\* data.get("clips", []) of the parsed text
ParseClips(bytes) == [k \in 1..(Len(bytes) - 2) |-> bytes[k + 1].clip]

\* a write of toks at offset pos of the file: it overlays what is there and
\* leaves a hole when the file is shorter than the offset
WriteAt(bytes, pos, toks) ==
    LET n == Max2(Len(bytes), pos - 1 + Len(toks))
    IN  [k \in 1..n |->
            IF k >= pos /\ k < pos + Len(toks) THEN toks[k - pos + 1]
            ELSE IF k <= Len(bytes) THEN bytes[k]
            ELSE Token("hole", NoClip)]

NoHandle == [pos |-> 1, pending |-> <<>>, flushed |-> FALSE]

\* with open(path, "w") as f: the handle right after the open
OpenedFor(clips) == [pos |-> 1, pending |-> Serialize(clips), flushed |-> FALSE]

\* the handle after its first k pending tokens reached the file
Advance(h, k) ==
    [pos |-> h.pos + k, pending |-> SubSeq(h.pending, k + 1, Len(h.pending)),
     flushed |-> TRUE]

NoBuilder == [pc |-> "off", force |-> FALSE, files |-> <<>>, existing |-> <<>>,
              all_clips |-> <<>>, transcribed |-> {}, wrote |-> <<>>, f |-> NoHandle]

NoResolver == [pc |-> "off", data |-> <<>>, remove_files |-> {}, wrote |-> <<>>,
               f |-> NoHandle]

NoReader == [status |-> "none", clips |-> <<>>]

IdleConc ==
    /\ cbytes = <<>>
    /\ bw = NoBuilder
    /\ rw = NoResolver
    /\ rd = NoReader
    /\ serial = FALSE

\* what one earlier clip_parser run over a.mp3 left behind: its clips, deduped
StartOutcomes ==
    {o \in SeqsUpTo(Texts \X Audio, MaxClipsPerFile) :
        /\ o # <<>>
        /\ Dedupe(ClipsOf(SourceFiles[1], o), {}, <<>>) = ClipsOf(SourceFiles[1], o)}

\* a library built from a.mp3; clip_parser and deduplicator --delete are
\* about to run, serialized by the operator or not
InitConc ==
    /\ \E o \in StartOutcomes :
          /\ cbytes = Serialize(ClipsOf(SourceFiles[1], o))
          /\ disk = ExportAll(<<>>, SourceFiles[1], o)
    /\ \E force \in BOOLEAN, dir \in InputDirs :
          /\ dir # {}
          /\ bw = [NoBuilder EXCEPT !.pc = "start", !.force = force,
                                    !.files = Sorted(dir, 1)]
    /\ rw = [NoResolver EXCEPT !.pc = "start"]
    /\ rd = NoReader
    /\ serial \in BOOLEAN
    /\ catalog = [exists |-> FALSE, clips |-> <<>>]
    /\ pc = "idle" /\ run = NoRun /\ last = NoLast

Running(p) == p.pc \notin {"off", "start", "done", "crashed"}

\* external serialization: a writer starts only while the other one is not
\* in the middle of its run
CanStart(other) == serial => ~Running(other)

\* clip_parser.py lines 328-335: the existing catalog is read unless --force
CBLoad ==
    /\ bw.pc = "start" /\ CanStart(rw)
    /\ IF bw.force
       THEN bw' = [bw EXCEPT !.pc = "loop"]
       ELSE IF Parses(cbytes)
       THEN bw' = [bw EXCEPT !.pc = "loop", !.existing = ParseClips(cbytes)]
       ELSE bw' = [bw EXCEPT !.pc = "crashed"]
    /\ UNCHANGED <<cbytes, disk, rw, rd, serial>>

\* lines 366-369
CBSkip ==
    /\ bw.pc = "loop" /\ bw.files # <<>>
    /\ LET file == Head(bw.files) IN
       /\ ~bw.force /\ InExisting(bw.existing, file.name)
       /\ bw' = [bw EXCEPT !.files = Tail(@),
                           !.all_clips = @ \o ExistingOf(bw.existing, file.name)]
    /\ UNCHANGED <<cbytes, disk, rw, rd, serial>>

\* lines 371-372
CBProcess ==
    /\ bw.pc = "loop" /\ bw.files # <<>>
    /\ LET file == Head(bw.files) IN
       /\ bw.force \/ ~InExisting(bw.existing, file.name)
       /\ \E outcome \in SeqsUpTo(Texts \X Audio, MaxNewClips) :
             /\ disk' = ExportAll(disk, file, outcome)
             /\ bw' = [bw EXCEPT !.files = Tail(@),
                                 !.all_clips = @ \o ClipsOf(file, outcome),
                                 !.transcribed = @ \cup {file.name}]
    /\ UNCHANGED <<cbytes, rw, rd, serial>>

\* lines 374-399: dedupe and the orphan sweep
CBSweep ==
    /\ bw.pc = "loop" /\ bw.files = <<>>
    /\ LET deduped == Dedupe(bw.all_clips, {}, <<>>) IN
       /\ disk' = RemoveOrphans(disk, deduped)
       /\ bw' = [bw EXCEPT !.pc = "save", !.all_clips = deduped]
    /\ UNCHANGED <<cbytes, rw, rd, serial>>

\* line 417: open(config.MICRO_CLIPS_JSON, "w")
CBOpen ==
    /\ bw.pc = "save"
    /\ cbytes' = <<>>
    /\ bw' = [bw EXCEPT !.pc = "dump", !.f = OpenedFor(bw.all_clips)]
    /\ UNCHANGED <<disk, rw, rd, serial>>

\* line 418: the buffer of json.dump fills up and a first piece is written
CBFlush ==
    /\ bw.pc = "dump" /\ ~bw.f.flushed
    /\ \E k \in 1..(Len(bw.f.pending) - 1) :
          /\ cbytes' = WriteAt(cbytes, bw.f.pos, SubSeq(bw.f.pending, 1, k))
          /\ bw' = [bw EXCEPT !.f = Advance(@, k)]
    /\ UNCHANGED <<disk, rw, rd, serial>>

\* line 418 and the end of the with block: the rest is written, the file closed
CBClose ==
    /\ bw.pc = "dump"
    /\ cbytes' = WriteAt(cbytes, bw.f.pos, bw.f.pending)
    /\ bw' = [bw EXCEPT !.pc = "done", !.wrote = bw.all_clips, !.f = NoHandle]
    /\ UNCHANGED <<disk, rw, rd, serial>>

\* deduplicator.py lines 298-342: find_duplicates reads the catalog and the
\* clip files; main works out the new clip list
CRScan ==
    /\ rw.pc = "start" /\ CanStart(bw)
    /\ IF ~Parses(cbytes)
       THEN rw' = [rw EXCEPT !.pc = "crashed"]
       ELSE LET data == ParseClips(cbytes)
                dupes == find_duplicates([exists |-> TRUE, clips |-> data], disk,
                                         DefaultThreshold)
                remove_files == RemoveFiles(data, dupes)
            IN  IF dupes = <<>>
                THEN rw' = [rw EXCEPT !.pc = "done"]
                ELSE rw' = [rw EXCEPT !.pc = "save",
                                      !.data = CatalogWithout(data, remove_files),
                                      !.remove_files = remove_files]
    /\ UNCHANGED <<cbytes, disk, bw, rd, serial>>

\* line 345: open(catalog_path, "w")
CROpen ==
    /\ rw.pc = "save"
    /\ cbytes' = <<>>
    /\ rw' = [rw EXCEPT !.pc = "dump", !.f = OpenedFor(rw.data)]
    /\ UNCHANGED <<disk, bw, rd, serial>>

\* line 346: a first piece of the text is written
CRFlush ==
    /\ rw.pc = "dump" /\ ~rw.f.flushed
    /\ \E k \in 1..(Len(rw.f.pending) - 1) :
          /\ cbytes' = WriteAt(cbytes, rw.f.pos, SubSeq(rw.f.pending, 1, k))
          /\ rw' = [rw EXCEPT !.f = Advance(@, k)]
    /\ UNCHANGED <<disk, bw, rd, serial>>

\* line 346 and the end of the with block
CRClose ==
    /\ rw.pc = "dump"
    /\ cbytes' = WriteAt(cbytes, rw.f.pos, rw.f.pending)
    /\ rw' = [rw EXCEPT !.pc = "unlink", !.wrote = rw.data, !.f = NoHandle]
    /\ UNCHANGED <<disk, bw, rd, serial>>

\* lines 350-356: the files go after the catalog is saved
CRDelete ==
    /\ rw.pc = "unlink"
    /\ disk' = DeleteFiles(disk, rw.remove_files)
    /\ rw' = [rw EXCEPT !.pc = "done"]
    /\ UNCHANGED <<cbytes, bw, rd, serial>>

\* main.load_clips lines 39-42 (also helper.py and the UI statistics): the
\* file is opened and parsed in one read
ReaderLoad ==
    /\ rd.status = "none"
    /\ rd' = IF Parses(cbytes)
             THEN [status |-> "ok", clips |-> ParseClips(cbytes)]
             ELSE [status |-> "decode_error", clips |-> <<>>]
    /\ UNCHANGED <<cbytes, disk, bw, rw, serial>>

(***************************************************************************)
(* Message log: read_messages.on_message appends, main.main polls          *)
(* A line is [id, wf, len]: wf says it carries the [HH:MM:SS] stamp that   *)
(* read_new_messages looks for, len is its length in bytes (with the       *)
(* newline).  An offset is a number of bytes from the start of the file.   *)
(* written counts the lines ever appended: it numbers them, so that a line *)
(* keeps its id when the file is emptied.                                  *)
(***************************************************************************)
MaxLines == 4
MaxLineLen == 2

NoLog == [exists |-> FALSE, lines |-> <<>>, written |-> 0]

RECURSIVE SizeOf(_)
\* os.path.getsize: the bytes of all lines
SizeOf(lines) == IF lines = <<>> THEN 0 ELSE Head(lines).len + SizeOf(Tail(lines))

\* the offset at which line k starts
StartOf(lines, k) == SizeOf(SubSeq(lines, 1, k - 1))

\* f.seek(pos), then "for line in f": the text from pos to the end of the
\* file, cut at the newlines.  A line that starts before pos is read from
\* pos on, so it comes without its stamp.
LinesFrom(lines, pos) ==
    LET live == SelectSeq([k \in 1..Len(lines) |-> [k |-> k]],
                          LAMBDA e : StartOf(lines, e.k) + lines[e.k].len > pos)
    IN  [j \in 1..Len(live) |->
            LET k == live[j].k
            IN  IF StartOf(lines, k) >= pos THEN lines[k]
                ELSE [id |-> lines[k].id, wf |-> FALSE,
                      len |-> StartOf(lines, k) + lines[k].len - pos]]

\* lines 79-82: the lines that match \[\d{2}:\d{2}:\d{2}\]\s*(.+)
Matching(read) ==
    LET hits == SelectSeq(read, LAMBDA l : l.wf)
    IN  [j \in 1..Len(hits) |-> hits[j].id]

\* mutant: the file is read from its start, the offset is not used
ReadWithoutSeek(log, last_pos) ==
    IF ~log.exists THEN <<(<<>>), last_pos>>
    ELSE <<Matching(LinesFrom(log.lines, 0)), Max2(last_pos, SizeOf(log.lines))>>

\* read_new_messages(log_file, last_pos): <<messages, new last_pos>>
read_new_messages(log, last_pos) ==
    IF ~log.exists THEN <<(<<>>), last_pos>>
    ELSE <<Matching(LinesFrom(log.lines, last_pos)),
           Max2(last_pos, SizeOf(log.lines))>>

NoConsumer == [on |-> FALSE, before |-> 0]

IdleLog ==
    /\ mlog = NoLog
    /\ cursor = 0
    /\ got = <<>>
    /\ cons = NoConsumer

\* the log as the consumer can find it: absent, or holding earlier lines
InitLog ==
    /\ \E n \in 0..1, present \in BOOLEAN, w \in 1..MaxLineLen :
          mlog = IF present
                 THEN [exists |-> TRUE,
                       lines |-> [k \in 1..n |-> [id |-> k, wf |-> TRUE, len |-> w]],
                       written |-> n]
                 ELSE NoLog
    /\ cursor = 0
    /\ got = <<>>
    /\ cons = NoConsumer

\* read_messages.py lines 116-123: one message is appended, stamped; a
\* message with a line break in it leaves a second line without a stamp
LogAppend ==
    /\ mlog.written < MaxLines
    /\ \E w \in 1..MaxLineLen, multiline \in BOOLEAN :
          LET n == mlog.written
              first == [id |-> n + 1, wf |-> TRUE, len |-> w]
              second == [id |-> n + 2, wf |-> FALSE, len |-> w]
          IN  /\ multiline => n + 2 <= MaxLines
              /\ mlog' = [exists |-> TRUE,
                          lines |-> IF multiline
                                    THEN mlog.lines \o <<first, second>>
                                    ELSE Append(mlog.lines, first),
                          written |-> IF multiline THEN n + 2 ELSE n + 1]
    /\ UNCHANGED <<cursor, got, cons>>

\* main.py lines 152-159: skip to the end of the existing log
ConsumerStart ==
    /\ ~cons.on
    /\ cursor' = IF mlog.exists THEN SizeOf(mlog.lines) ELSE 0
    /\ cons' = [on |-> TRUE, before |-> Len(mlog.lines)]
    /\ UNCHANGED <<mlog, got>>

\* main.py line 163: one poll
Poll ==
    /\ cons.on
    /\ LET r == read_new_messages(mlog, cursor) IN
       /\ got' = got \o r[1]
       /\ cursor' = r[2]
    /\ UNCHANGED <<mlog, cons>>

(***************************************************************************)
(* Clip manager UI: clip_ui.ClipManagerHandler.do_GET starts the           *)
(* background threads download_and_parse and run_command.  HTTPServer      *)
(* handles one request at a time, so a request is one step; a thread runs  *)
(* beside the request handler, so its first statements and its return are  *)
(* steps of their own.  progress["logs"] is left out: it gates nothing.    *)
(***************************************************************************)
MaxJobs == 3

\* the url and cmd query parameters a request can carry ("" when absent)
Urls == {"", "https://clip"}
Commands == {"", "dedupe", "clear_log", "bogus"}

\* the cmd_name values run_command has a branch for
KnownCommands ==
    {"dedupe", "reparse", "parse_new", "clear_log", "wave_dedupe", "list_devices"}

\* clip_ui.py lines 27-33
IdleProgress == [running |-> FALSE, current_url |-> "", done |-> 0, total |-> 0]

IdleUI == progress = IdleProgress /\ jobs = <<>>

\* what a job that has not emptied the message log leaves in its emptied
\* field; a job that has, leaves there whether a consumer was polling the
\* log then and how many lines had been written to it (kept for the
\* properties, the code holds no such record)
NotEmptied == [log |-> FALSE, polling |-> FALSE, written |-> 0]

\* threading.Thread(target=..., args=(...)).start(): the thread exists, its
\* body has not run yet
Thread(target, a) ==
    [target |-> target, arg |-> a, at |-> "started", emptied |-> NotEmptied]

\* lines 881 and 898: "if url and not progress["running"]"
StartsThread(a, busy) == a # "" /\ ~busy

\* lines 874-892: GET /api/add
ApiAdd ==
    /\ Len(jobs) < MaxJobs
    /\ \E url \in Urls :
          jobs' = IF StartsThread(url, progress.running)
                  THEN Append(jobs, Thread("download_and_parse", url))
                  ELSE jobs
    /\ UNCHANGED <<progress, mlog>>

\* lines 894-909: GET /api/command
ApiCommand ==
    /\ Len(jobs) < MaxJobs
    /\ \E cmd \in Commands :
          jobs' = IF StartsThread(cmd, progress.running)
                  THEN Append(jobs, Thread("run_command", cmd))
                  ELSE jobs
    /\ UNCHANGED <<progress, mlog>>

\* lines 103-107 and 194-198: the first statements of the thread's body
JobBegin ==
    /\ \E j \in 1..Len(jobs) :
          /\ jobs[j].at = "started"
          /\ jobs' = [jobs EXCEPT ![j].at = "working"]
          /\ progress' = [running |-> TRUE, current_url |-> jobs[j].arg,
                          done |-> 0, total |-> 1]
    /\ UNCHANGED mlog

\* lines 235-237: open(log_file, "w").close() when the file is there
clear_log(log) == IF log.exists THEN [log EXCEPT !.lines = <<>>] ELSE log

\* lines 108-189 and 206-288: the rest of the body.  ok says whether it got
\* to progress["done"] = 1; every way out sets progress["running"] = False
JobEnd ==
    \E j \in 1..Len(jobs), ok \in BOOLEAN :
        LET clears == jobs[j].target = "run_command" /\ jobs[j].arg = "clear_log" /\ ok
        IN  /\ jobs[j].at = "working"
            /\ (jobs[j].target = "run_command" /\ jobs[j].arg \notin KnownCommands) => ~ok
            /\ jobs' = [jobs EXCEPT
                           ![j].at = "returned",
                           ![j].emptied = IF clears /\ mlog.exists
                                          THEN [log |-> TRUE, polling |-> cons.on,
                                                written |-> mlog.written]
                                          ELSE @]
            /\ progress' = [progress EXCEPT !.running = FALSE,
                                            !.done = IF ok THEN 1 ELSE @]
            /\ mlog' = IF clears THEN clear_log(mlog) ELSE mlog

\* a job is active while its body runs
ActiveJobs == {j \in 1..Len(jobs) : jobs[j].at = "working"}

(***************************************************************************)
(* Launcher: run.py main.  A child is [name, state, term, killed]; state   *)
(* is "running" or "exited".  KeyboardInterrupt is raised by a signal, so  *)
(* it can arrive wherever main is.                                         *)
(***************************************************************************)
MaxChildren == 3

\* lines 29-34: the scripts to start, without and with the coverage helper
Scripts(no_helper) ==
    IF no_helper THEN <<"Message Reader", "Main Engine">>
    ELSE <<"Message Reader", "Main Engine", "Coverage Helper">>

NoLauncher == [at |-> "off", scripts |-> <<>>, k |-> 1, why |-> "none"]

IdleLaunch == launcher = NoLauncher /\ children = <<>>

InitLaunch ==
    /\ \E no_helper \in BOOLEAN :
          launcher = [at |-> "starting", scripts |-> Scripts(no_helper), k |-> 1,
                      why |-> "none"]
    /\ children = <<>>

\* lines 41-44: one pass of the start loop
StartChild ==
    /\ launcher.at = "starting"
    /\ Len(children) < Len(launcher.scripts)
    /\ Len(children) < MaxChildren
    /\ children' = Append(children,
                          [name |-> launcher.scripts[Len(children) + 1],
                           state |-> "running", term |-> FALSE, killed |-> FALSE])
    /\ UNCHANGED launcher

\* lines 46-49: every script is started, the poll loop is entered
EnterLoop ==
    /\ launcher.at = "starting"
    /\ Len(children) = Len(launcher.scripts)
    /\ launcher' = [launcher EXCEPT !.at = "polling"]
    /\ UNCHANGED children

\* a child ends by itself, or because of the SIGTERM it was sent
ChildExits ==
    /\ launcher.at # "off"
    /\ \E c \in 1..Len(children) :
          /\ children[c].state = "running"
          /\ children' = [children EXCEPT ![c].state = "exited"]
    /\ UNCHANGED launcher

\* lines 50-56: one pass over the children; an exited child raises
\* KeyboardInterrupt inside the try block
PollPass ==
    /\ launcher.at = "polling"
    /\ launcher' = IF \E c \in 1..Len(children) : children[c].state = "exited"
                   THEN [launcher EXCEPT !.at = "terminating", !.k = 1,
                                         !.why = "child_exit"]
                   ELSE launcher
    /\ UNCHANGED children

\* lines 48 and 58: the try block covers the poll loop only
Catches(at) == at = "polling"

\* Ctrl+C: caught at line 58 when raised inside the try block, otherwise
\* (lines 40-46, and the handler itself, lines 59-72) main ends with it
Interrupt ==
    /\ launcher.at \in {"starting", "polling", "terminating", "waiting"}
    /\ launcher' = IF Catches(launcher.at)
                   THEN [launcher EXCEPT !.at = "terminating", !.k = 1,
                                         !.why = "interrupt"]
                   ELSE [launcher EXCEPT !.at = "crashed", !.why = "interrupt"]
    /\ UNCHANGED children

\* the loop variable moves on; after the last child the next phase begins
NextChild(l, then) ==
    IF l.k < Len(children) THEN [l EXCEPT !.k = l.k + 1]
    ELSE [l EXCEPT !.at = then, !.k = 1]

\* lines 60-63: one pass of the terminate loop
TerminateChild ==
    /\ launcher.at = "terminating"
    /\ children' = IF children[launcher.k].state = "running"
                   THEN [children EXCEPT ![launcher.k].term = TRUE]
                   ELSE children
    /\ launcher' = NextChild(launcher, "waiting")

\* lines 66-70: one pass of the wait loop; a child still running after the
\* timeout is killed, and SIGKILL ends it
WaitChild ==
    /\ launcher.at = "waiting"
    /\ \E in_time \in BOOLEAN :
          children' = IF children[launcher.k].state = "exited" THEN children
                      ELSE IF in_time
                      THEN [children EXCEPT ![launcher.k].state = "exited"]
                      ELSE [children EXCEPT ![launcher.k].state = "exited",
                                            ![launcher.k].killed = TRUE]
    /\ launcher' = NextChild(launcher, "stopped")

(***************************************************************************)
(* Specifications                                                          *)
(***************************************************************************)
IdlePipe ==
    /\ catalog = [exists |-> FALSE, clips |-> <<>>]
    /\ disk = <<>>
    /\ pc = "idle"
    /\ run = NoRun
    /\ last = NoLast

\* an empty catalog and an empty output folder
Init == IdlePipe /\ IdleRetrieve /\ IdleSplit /\ IdleConc /\ IdleLog /\ IdleText /\ IdleGate /\ IdleUI /\ IdleLaunch

Next ==
    \/ (BuilderStart /\ UNCHANGED <<retrVars, splitVars, concVars, logVars, textVars, gateVars, uiVars, launchVars>>)
    \/ (BuilderDedupeOnly /\ UNCHANGED <<retrVars, splitVars, concVars, logVars, textVars, gateVars, uiVars, launchVars>>)
    \/ (BuilderSkipFile /\ UNCHANGED <<retrVars, splitVars, concVars, logVars, textVars, gateVars, uiVars, launchVars>>)
    \/ (BuilderProcessFile /\ UNCHANGED <<retrVars, splitVars, concVars, logVars, textVars, gateVars, uiVars, launchVars>>)
    \/ (BuilderDecodeError /\ UNCHANGED <<retrVars, splitVars, concVars, logVars, textVars, gateVars, uiVars, launchVars>>)
    \/ (BuilderFinish /\ UNCHANGED <<retrVars, splitVars, concVars, logVars, textVars, gateVars, uiVars, launchVars>>)
    \/ (ResolverRun /\ UNCHANGED <<retrVars, splitVars, concVars, logVars, textVars, gateVars, uiVars, launchVars>>)
    \/ (PlaybackStart /\ UNCHANGED <<retrVars, splitVars, concVars, logVars, textVars, gateVars, uiVars, launchVars>>)
    \/ (HelperStart /\ UNCHANGED <<retrVars, splitVars, concVars, logVars, textVars, gateVars, uiVars, launchVars>>)
    \/ (MessageReaderStart /\ UNCHANGED <<retrVars, splitVars, concVars, logVars, textVars, gateVars, uiVars, launchVars>>)

Spec == Init /\ [][Next]_vars

InitR == IdlePipe /\ InitRetrieve /\ IdleSplit /\ IdleConc /\ IdleLog /\ IdleText /\ IdleGate /\ IdleUI /\ IdleLaunch

NextRetrieve ==
    \/ (FindBestClips /\ UNCHANGED <<pipeVars, splitVars, concVars, logVars, textVars, gateVars, uiVars, launchVars>>)
    \/ (ProcessBeat /\ UNCHANGED <<pipeVars, splitVars, concVars, logVars, textVars, gateVars, uiVars, launchVars>>)

SpecRetrieve == InitR /\ [][NextRetrieve]_vars

InitS == IdlePipe /\ IdleRetrieve /\ InitSplit /\ IdleConc /\ IdleLog /\ IdleText /\ IdleGate /\ IdleUI /\ IdleLaunch

NextSplit == Split /\ UNCHANGED <<pipeVars, retrVars, concVars, logVars, textVars, gateVars, uiVars, launchVars>>

SpecSplit == InitS /\ [][NextSplit]_vars

InitC == InitConc /\ IdleRetrieve /\ IdleSplit /\ IdleLog /\ IdleText /\ IdleGate /\ IdleUI /\ IdleLaunch

ConcIdle == UNCHANGED <<catalog, pc, run, last, retrVars, splitVars, logVars, textVars, gateVars, uiVars, launchVars>>

NextConc ==
    \/ (CBLoad /\ ConcIdle)
    \/ (CBSkip /\ ConcIdle)
    \/ (CBProcess /\ ConcIdle)
    \/ (CBSweep /\ ConcIdle)
    \/ (CBOpen /\ ConcIdle)
    \/ (CBFlush /\ ConcIdle)
    \/ (CBClose /\ ConcIdle)
    \/ (CRScan /\ ConcIdle)
    \/ (CROpen /\ ConcIdle)
    \/ (CRFlush /\ ConcIdle)
    \/ (CRClose /\ ConcIdle)
    \/ (CRDelete /\ ConcIdle)
    \/ (ReaderLoad /\ ConcIdle)

SpecConc == InitC /\ [][NextConc]_vars

InitL ==
    IdlePipe /\ IdleRetrieve /\ IdleSplit /\ IdleConc /\ InitLog /\ IdleText /\ IdleGate /\ IdleUI /\ IdleLaunch

LogIdle == UNCHANGED <<pipeVars, retrVars, splitVars, concVars, textVars, gateVars, uiVars, launchVars>>

NextLog ==
    \/ (LogAppend /\ LogIdle)
    \/ (ConsumerStart /\ LogIdle)
    \/ (Poll /\ LogIdle)

SpecLog == InitL /\ [][NextLog]_vars

InitT ==
    IdlePipe /\ IdleRetrieve /\ IdleSplit /\ IdleConc /\ IdleLog /\ InitText /\ IdleGate /\ IdleUI /\ IdleLaunch

TextIdle == UNCHANGED <<pipeVars, retrVars, splitVars, concVars, logVars, gateVars, uiVars, launchVars>>

NextText ==
    \/ (ApplyHallucinationCheck /\ TextIdle)
    \/ (ApplySplitBeats /\ TextIdle)

SpecText == InitT /\ [][NextText]_vars

InitCl ==
    /\ IdlePipe /\ IdleRetrieve /\ IdleSplit /\ IdleConc /\ IdleLog /\ IdleGate /\ IdleUI /\ IdleLaunch
    /\ InitGarbles

NextClean == ApplyClean /\ TextIdle

SpecClean == InitCl /\ [][NextClean]_vars

InitG ==
    IdlePipe /\ IdleRetrieve /\ IdleSplit /\ IdleConc /\ IdleLog /\ IdleText /\ InitGate /\ IdleUI /\ IdleLaunch

NextGate ==
    LookAtSubSegment /\ UNCHANGED <<pipeVars, retrVars, splitVars, concVars, logVars, textVars, uiVars, launchVars>>

SpecGate == InitG /\ [][NextGate]_vars

InitSg == IdlePipe /\ IdleRetrieve /\ IdleConc /\ IdleLog /\ IdleText /\ InitSegment /\ IdleUI /\ IdleLaunch

NextSegment ==
    \/ (SliceSegment /\ UNCHANGED <<pipeVars, retrVars, concVars, logVars, textVars, uiVars, launchVars>>)
    \/ (LookAtSubSegment /\ UNCHANGED <<pipeVars, retrVars, splitVars, concVars, logVars, textVars, uiVars, launchVars>>)

SpecSegment == InitSg /\ [][NextSegment]_vars

InitSc ==
    InitScan /\ IdleRetrieve /\ IdleSplit /\ IdleConc /\ IdleLog /\ IdleText /\ IdleGate /\ IdleUI /\ IdleLaunch

NextScan ==
    ResolverRun /\ UNCHANGED <<retrVars, splitVars, concVars, logVars, textVars, gateVars, uiVars, launchVars>>

SpecScan == InitSc /\ [][NextScan]_vars

InitF ==
    /\ IdlePipe /\ IdleRetrieve /\ IdleSplit /\ IdleConc /\ IdleLog /\ IdleGate /\ IdleUI /\ IdleLaunch
    /\ InitFingerprints

NextFingerprint == ApplySimilarity /\ TextIdle

SpecFingerprint == InitF /\ [][NextFingerprint]_vars

InitU ==
    /\ IdlePipe /\ IdleRetrieve /\ IdleSplit /\ IdleConc /\ IdleLog /\ IdleText /\ IdleGate
    /\ IdleUI /\ IdleLaunch

UIIdle ==
    UNCHANGED <<pipeVars, retrVars, splitVars, concVars, cursor, got, cons, textVars,
                gateVars, launchVars>>

NextUI ==
    \/ (ApiAdd /\ UIIdle)
    \/ (ApiCommand /\ UIIdle)
    \/ (JobBegin /\ UIIdle)
    \/ (JobEnd /\ UIIdle)

SpecUI == InitU /\ [][NextUI]_vars

InitCr ==
    /\ IdlePipe /\ IdleRetrieve /\ IdleSplit /\ IdleConc /\ InitLog /\ IdleText /\ IdleGate
    /\ IdleUI /\ IdleLaunch

ClearIdle ==
    UNCHANGED <<pipeVars, retrVars, splitVars, concVars, textVars, gateVars, launchVars>>

\* the number of command requests looked at beside the log's traffic
MaxCommands == 1

\* the message reader, the polling consumer and the UI's commands together
NextClear ==
    \/ (LogAppend /\ UNCHANGED uiVars /\ ClearIdle)
    \/ (ConsumerStart /\ UNCHANGED uiVars /\ ClearIdle)
    \/ (Poll /\ UNCHANGED uiVars /\ ClearIdle)
    \/ (ApiCommand /\ Len(jobs) < MaxCommands /\ UNCHANGED <<cursor, got, cons>> /\ ClearIdle)
    \/ (JobBegin /\ UNCHANGED <<cursor, got, cons>> /\ ClearIdle)
    \/ (JobEnd /\ UNCHANGED <<cursor, got, cons>> /\ ClearIdle)

SpecClear == InitCr /\ [][NextClear]_vars

InitLn ==
    /\ IdlePipe /\ IdleRetrieve /\ IdleSplit /\ IdleConc /\ IdleLog /\ IdleText /\ IdleGate
    /\ IdleUI /\ InitLaunch

LaunchIdle ==
    UNCHANGED <<pipeVars, retrVars, splitVars, concVars, logVars, textVars, gateVars, uiVars>>

NextLaunch ==
    \/ (StartChild /\ LaunchIdle)
    \/ (EnterLoop /\ LaunchIdle)
    \/ (ChildExits /\ LaunchIdle)
    \/ (PollPass /\ LaunchIdle)
    \/ (Interrupt /\ LaunchIdle)
    \/ (TerminateChild /\ LaunchIdle)
    \/ (WaitChild /\ LaunchIdle)

SpecLaunch == InitLn /\ [][NextLaunch]_vars

(***************************************************************************)
(* Properties                                                              *)
(***************************************************************************)

\* ---- retrieval (SpecRetrieve) ----
IsFindCall == call.op = "find_best_clips"

\* the clips at or above the call's min_similarity
Qualifying == {i \in DOMAIN sims : sims[i] >= EffectiveMinSim(call.min_similarity)}

\* C1: in process_message, for a non-empty catalog whose clips all carry an
\* embedding, the list selected for a beat is non-empty once the fallback
\* lookup (min_similarity = 0, top_n = 1) has run, whatever the similarities.
C1_FallbackSelectsAClip ==
    (call.op = "process_message" /\ sims # <<>>) => selected # <<>>

\* C7: find_best_clips returns at most top_n clips, in non-increasing order
\* of similarity, none below min_similarity, and exactly the top_n
\* highest-scoring qualifying clips (all of them when fewer qualify).
C7_TopNAboveThreshold ==
    IsFindCall =>
        /\ Len(selected) <= call.top_n
        /\ \A k \in 1..(Len(selected) - 1) : sims[selected[k]] >= sims[selected[k + 1]]
        /\ \A k \in DOMAIN selected : selected[k] \in Qualifying
        /\ \A k, l \in DOMAIN selected : k # l => selected[k] # selected[l]
        /\ Len(selected) = Min2(call.top_n, Cardinality(Qualifying))
        /\ \A j \in Qualifying \ Range(selected) :
              \A k \in DOMAIN selected : sims[j] <= sims[selected[k]]

\* a call cut by top_n, with a clip below the threshold and one exactly at it
C7_Witness ==
    /\ IsFindCall
    /\ selected # <<>>
    /\ Len(selected) < Cardinality(Qualifying)
    /\ Cardinality(Qualifying) < Len(sims)
    /\ \E j \in Qualifying : sims[j] = EffectiveMinSim(call.min_similarity)

\* C8: in the result of find_best_clips, clips of equal similarity appear in
\* catalog order, and when a tie straddles the top_n cut-off the clip
\* earlier in the catalog is the one returned.
C8_TiesInCatalogOrder ==
    IsFindCall =>
        /\ \A k, l \in DOMAIN selected :
              (k < l /\ sims[selected[k]] = sims[selected[l]])
                 => selected[k] < selected[l]
        /\ \A j \in Qualifying \ Range(selected) :
              \A k \in DOMAIN selected :
                 sims[j] = sims[selected[k]] => selected[k] < j

\* a tie inside the result and the same tie across the cut-off
C8_Witness ==
    /\ IsFindCall
    /\ Len(selected) = 2
    /\ sims[selected[1]] = sims[selected[2]]
    /\ \E j \in Qualifying \ Range(selected) : sims[j] = sims[selected[2]]

\* ---- segment splitter (SpecSplit) ----
SplitDone == spc = "done" /\ seg.words # <<>>

SubDuration(k) == subs[k].end - subs[k].start

\* the word with token t alone is longer than max_dur
WordAloneExceeds(t) == seg.words[t].end - seg.words[t].start > max_dur

MonotoneWords ==
    /\ \A i \in DOMAIN seg.words : seg.words[i].start <= seg.words[i].end
    /\ \A i \in 1..(Len(seg.words) - 1) : seg.words[i].end <= seg.words[i + 1].start

\* C10 as claimed: for monotone, non-overlapping word timings the
\* sub-segments are strictly ordered by start time and each starts at or
\* after the end of the previous one.
C10_StrictlyOrdered ==
    (SplitDone /\ MonotoneWords) =>
        \A k \in 1..(Len(subs) - 1) :
            /\ subs[k].start < subs[k + 1].start
            /\ subs[k].end <= subs[k + 1].start

\* C10 amended: for monotone, non-overlapping word timings each sub-segment
\* starts at or after the end of the previous one, starts are non-decreasing,
\* and they are strictly increasing when every word has a positive duration.
C10_OrderedNonOverlapping ==
    (SplitDone /\ MonotoneWords) =>
        \A k \in 1..(Len(subs) - 1) :
            /\ subs[k].start <= subs[k].end
            /\ subs[k].end <= subs[k + 1].start
            /\ (\A i \in DOMAIN seg.words : seg.words[i].start < seg.words[i].end)
                  => subs[k].start < subs[k + 1].start

\* two sub-segments with the same start: the first holds zero-length words
C10_Witness ==
    /\ SplitDone /\ MonotoneWords
    /\ Len(subs) = 3
    /\ subs[1].start = subs[2].start
    /\ subs[2].start < subs[3].start

\* ---- catalog pipeline (Spec) ----
DistinctClipFiles(clips) ==
    \A i, j \in DOMAIN clips : i # j => clips[i].clip_file # clips[j].clip_file

\* exactly two clips hold the same bytes; nothing else is a duplicate
OneIdenticalPair(clips, d) ==
    /\ DistinctClipFiles(clips)
    /\ OnDisk(clips, d) = DOMAIN clips
    /\ \E i, j \in DOMAIN clips :
          /\ i < j
          /\ HashOf(clips, d, i) = HashOf(clips, d, j)
          /\ \A p, q \in DOMAIN clips :
                (p < q /\ <<p, q>> # <<i, j>>) =>
                    /\ HashOf(clips, d, p) # HashOf(clips, d, q)
                    /\ ~IsWavePair(clips, d, p, q, DefaultThreshold)

\* the step is a run of the resolver in the given mode
ResolverStep(mode) == pc = "idle" /\ last'.op = "resolver" /\ last'.mode = mode

\* C2: on a catalog in which exactly two clips have byte-identical audio, a
\* resolver run in delete mode removes exactly one catalog entry and exactly
\* one file, whatever the catalog order and the two transcript lengths.
C2_DeleteRemovesExactlyOne ==
    [][(ResolverStep("delete") /\ OneIdenticalPair(catalog.clips, disk)) =>
          /\ Len(catalog'.clips) = Len(catalog.clips) - 1
          /\ Cardinality(DOMAIN disk') = Cardinality(DOMAIN disk) - 1]_vars

\* C3: a resolver run without --delete leaves the catalog file and every
\* audio file unchanged, whatever duplicates it detects.
C3_PreviewChangesNothing ==
    [][ResolverStep("preview") => (catalog' = catalog /\ disk' = disk)]_vars

\* a preview that reported an exact and a waveform duplicate
C3_Witness ==
    /\ last.op = "resolver" /\ last.mode = "preview"
    /\ \E k \in DOMAIN last.dupes : last.dupes[k].type = "exact"
    /\ \E k \in DOMAIN last.dupes : last.dupes[k].type = "waveform"
    /\ catalog.clips # <<>>

BuilderWrote == pc = "idle" /\ last.op = "builder" /\ last.outcome = "written"

\* C4: after any catalog builder run no two entries of the persisted catalog
\* have the same clip_file (the sanitized basename of the source plus a
\* per-file index starting at 0).
C4_ClipFileUnique == BuilderWrote => DistinctClipFiles(catalog.clips)

\* C5: after any sequence of serialized, completed builder runs (normal,
\* forced, dedupe-only) and resolver runs (preview, delete) from an empty
\* catalog and folder, every clip_file of the catalog exists on disk.
C5_CatalogFilesExist ==
    pc = "idle" => \A i \in DOMAIN catalog.clips : catalog.clips[i].clip_file \in DOMAIN disk

\* a resolver delete run that left entries in the catalog
C5_Witness ==
    /\ pc = "idle"
    /\ last.op = "resolver" /\ last.outcome = "deleted"
    /\ catalog.clips # <<>>

\* C6: when one input file of several cannot be decoded, only that file is
\* aborted: every other input file is processed or carried forward and the
\* catalog is written at the end of the run.
C6_DecodeErrorSkipsOneFile ==
    (pc = "idle" /\ last.op = "builder" /\ last.failed # {} /\ Len(last.files) > 1) =>
        /\ last.outcome = "written"
        /\ \A f \in Range(last.files) \ last.failed : f \in last.handled

\* the source files that have entries in a clip list
SourcesOf(clips) == {clips[i].source_file : i \in DOMAIN clips}

\* the step ends a builder run that scanned files and wrote the catalog
BuilderWrites == pc = "builder" /\ pc' = "idle" /\ last'.outcome = "written"

\* the input folder is the one the catalog was built from: every source of
\* the catalog is still there, and the files without entries yield, as before,
\* no clip
UnchangedInput ==
    /\ SourcesOf(catalog.clips) \subseteq Range(run.scanned)
    /\ SourcesOf(run.all_clips) \subseteq SourcesOf(catalog.clips)

DedupeInput ==
    IF pc = "builder" THEN run.all_clips ELSE catalog.clips

BuilderSaves ==
    /\ last'.op = "builder" /\ last'.outcome = "written"
    /\ pc' = "idle"

\* (source_file, lowercased trimmed text), spelled out on the two fields
SameKey(c1, c2) ==
    /\ c1.source_file = c2.source_file
    /\ Strip(Lower(c1.text)) = Strip(Lower(c2.text))

\* the positions of a list that are the first of their key
FirstOfKey(clips) ==
    {i \in DOMAIN clips : \A j \in 1..(i - 1) : ~SameKey(clips[j], clips[i])}

C15_ExitStatusTellsConfigErrors ==
    LET needsCatalog == last.op \in {"playback", "helper", "resolver"}
        configError == \/ needsCatalog /\ ~catalog.exists
                       \/ last.op = "reader" /\ last.mode = "no_token"
    IN  (pc = "idle" /\ (needsCatalog \/ last.op = "reader")) =>
            (configError <=> ExitStatus(last) # 0)

\* ---- message log (SpecLog) ----

\* the stamped lines appended after the consumer started that lie wholly
\* before the offset
DueMessages(offset) ==
    LET due == SelectSeq(mlog.lines,
                         LAMBDA l : /\ l.id > cons.before
                                    /\ l.wf
                                    /\ StartOf(mlog.lines, l.id) + l.len <= offset)
    IN  [j \in 1..Len(due) |-> due[j].id]

\* the step is a poll of the running consumer
PollStep == cons.on /\ cons' = cons /\ mlog' = mlog

\* C16: with an append-only log, under every interleaving of appends and
\* polls, the messages returned so far are exactly the stamped lines appended
\* after the consumer started and before its cursor, each once and in append
\* order (no earlier line, no line twice); a poll returns everything appended
\* so far; the cursor never decreases and a poll on a missing file leaves it
\* unchanged.
C16_EachNewLineOnceInOrder ==
    /\ [](cons.on => got = DueMessages(cursor))
    /\ [][/\ cursor' >= cursor
          /\ PollStep => got' = DueMessages(SizeOf(mlog.lines))
          /\ (PollStep /\ ~mlog.exists) => cursor' = cursor]_vars

\* a consumer that started on a log with one line and has since been handed
\* two of the three lines appended (the third has no stamp), all read
C16_Witness ==
    /\ cons.on /\ cons.before = 1
    /\ Len(mlog.lines) = 4
    /\ got = <<2, 4>>
    /\ cursor = SizeOf(mlog.lines)

\* the two clips a reported record is about
PairOf(dupe) == {dupe.keep, dupe.remove}

\* keep has the longer transcript, and comes first when the two are as long
KeepsLongerText(clips, dupe) ==
    /\ Len(clips[dupe.keep].text) >= Len(clips[dupe.remove].text)
    /\ Len(clips[dupe.keep].text) = Len(clips[dupe.remove].text)
          => dupe.keep < dupe.remove

\* C20: in what find_duplicates reports, every waveform pair keeps the clip
\* with the longer transcript, the earlier in catalog order when the two are
\* as long, and no unordered pair of clips is reported more than once.
C20_WavePairsKeepLongerOnce ==
    [][(pc = "idle" /\ last'.op = "resolver") =>
          /\ \A k \in DOMAIN last'.dupes :
                last'.dupes[k].type = "waveform"
                    => KeepsLongerText(catalog.clips, last'.dupes[k])
          /\ \A k, m \in DOMAIN last'.dupes :
                k # m => PairOf(last'.dupes[k]) # PairOf(last'.dupes[m])]_vars

\* the words of the sub-segments, in output order
WordsOfSubs == Concat([k \in 1..Len(subs) |-> subs[k].text])

\* C26: for a segment with word timings the sub-segments of
\* split_segment_by_words partition its words: their words, in output
\* order, are the segment's words, none dropped, doubled or moved, and no
\* sub-segment is empty.
C26_SubSegmentsPartitionWords ==
    (spc = "done" /\ seg.words # <<>>) =>
        /\ WordsOfSubs = seg.text
        /\ \A k \in 1..Len(subs) : subs[k].text # <<>>

\* three words split into more than one sub-segment
C26_Witness ==
    /\ spc = "done"
    /\ Len(seg.words) = 3
    /\ Len(subs) = 2
    /\ Len(subs[1].text) = 2

\* ---- the resolver on any library (SpecScan) ----

\* the catalog positions whose audio file is not in the folder
MissingEntries == (DOMAIN catalog.clips) \ OnDisk(catalog.clips, disk)

\* how many entries equal to c a catalog holds
CountOf(clips, c) == Cardinality({i \in DOMAIN clips : clips[i] = c})

\* C21: an entry whose audio file is missing is in no duplicate pair, as
\* keep or as remove, and a resolver run in either mode leaves it in the
\* catalog and creates no file for it; the missing entries are counted.
C21_MissingEntriesAreLeftAlone ==
    [][(pc = "idle" /\ last'.op = "resolver") =>
          /\ last'.missing = Cardinality(MissingEntries)
          /\ \A i \in MissingEntries :
                /\ \A k \in DOMAIN last'.dupes : i \notin PairOf(last'.dupes[k])
                /\ CountOf(catalog'.clips, catalog.clips[i])
                      = CountOf(catalog.clips, catalog.clips[i])
                /\ catalog.clips[i].clip_file \notin DOMAIN disk']_vars

\* a delete run that removed a duplicate and left a missing entry in place
C21_Witness ==
    /\ last.op = "resolver" /\ last.outcome = "deleted"
    /\ last.missing = 1
    /\ \E i \in DOMAIN catalog.clips : catalog.clips[i].clip_file \notin DOMAIN disk

\* C27: after a resolver run in delete mode the clip each reported pair
\* designates keep is still in the catalog and its file is still in the
\* folder.
C27_KeptClipsSurvive ==
    [][ResolverStep("delete") =>
          \A k \in DOMAIN last'.dupes :
              LET kept == catalog.clips[last'.dupes[k].keep] IN
              /\ kept \in Range(catalog'.clips)
              /\ kept.clip_file \in DOMAIN disk']_vars

\* ---- fingerprints (SpecFingerprint) ----

\* C22: every fingerprint of one or more frames, the one of a silent clip
\* included, has similarity 1.0 with itself.
C22_SelfSimilarityIsOne ==
    (ret.fn = "fingerprint_similarity" /\ arg[1] = arg[2]) => ret.sim.num = ret.sim.den

\* ---- text functions (SpecText) ----

\* C17: is_whisper_hallucination gives False for the empty string, True for
\* "ha ha ha ha ha ha", True for "please subscribe and hit the bell" and
\* False for a normal sentence of 80 characters without repetition.
C17_ExamplesAsDocumented ==
    ret.fn = "is_whisper_hallucination" =>
        /\ arg = EmptyText => ret.flag = FALSE
        /\ arg = HaShort => ret.flag = TRUE
        /\ arg = SubscribeShort => ret.flag = TRUE
        /\ arg = NormalSentence => ret.flag = FALSE

\* the beats are found in the text one after the other, left to right
RECURSIVE AppearInOrder(_, _, _)
AppearInOrder(text, from, beats) ==
    \/ beats = <<>>
    \/ \E i \in from..(Len(text) + 1) :
          /\ StartsWithAt(text, i, Head(beats))
          /\ AppearInOrder(text, i + Len(Head(beats)), Tail(beats))

HasSeparator(beat) == \E i \in 1..Len(beat) : beat[i] \in Separators

\* the split leaves no fragment with content
NoFragment(text) ==
    \A piece \in Range(SplitPieces(text, 1, 1, <<>>)) : Strip(piece) = <<>>

BeatsReturned == ret.fn = "split_semantic_beats"

\* C18 as claimed: the result is never empty, no beat is empty or blank
\* unless the whole input is, no beat holds one of . ! ? ; and the beats
\* come in the order of the text.
C18_BeatsAsClaimed ==
    BeatsReturned =>
        /\ Len(ret.beats) >= 1
        /\ (\E k \in 1..Len(ret.beats) : Strip(ret.beats[k]) = <<>>) => Strip(arg) = <<>>
        /\ \A k \in 1..Len(ret.beats) : ~HasSeparator(ret.beats[k])
        /\ AppearInOrder(arg, 1, ret.beats)

\* C18: the result is never empty, no beat is empty or blank unless the
\* whole input is, the beats come in the order of the text, and a beat holds
\* one of . ! ? ; only when the split leaves no fragment with content, where
\* the one beat returned is the trimmed input.
C18_BeatsOfText ==
    BeatsReturned =>
        /\ Len(ret.beats) >= 1
        /\ (\E k \in 1..Len(ret.beats) : Strip(ret.beats[k]) = <<>>) => Strip(arg) = <<>>
        /\ (\E k \in 1..Len(ret.beats) : HasSeparator(ret.beats[k]))
              => NoFragment(arg) /\ ret.beats = <<Strip(arg)>>
        /\ NoFragment(arg) => ret.beats = <<Strip(arg)>>
        /\ ~NoFragment(arg) => \A k \in 1..Len(ret.beats) : ~HasSeparator(ret.beats[k])
        /\ AppearInOrder(arg, 1, ret.beats)

\* a text of separators, blanks and a joining word comes back as one beat
C18_Witness ==
    /\ BeatsReturned
    /\ arg = <<".", " ", "b", "u", "t", " ", "!">>
    /\ ret.beats = <<arg>>

\* ---- quality gates (SpecGate) ----

\* the three gates as the catalog entry shows them
PassedGates(c) ==
    /\ c.duration >= MIN_CLIP_DURATION
    /\ AlnumCount(c.text_original) >= MIN_TRANSCRIPT_LENGTH
    /\ AlnumCount(c.text) >= MIN_TRANSCRIPT_LENGTH
    /\ c.energy_db * 10 >= MIN_CLIP_ENERGY_DB * 100

\* a candidate that fails one of them
FailsAGate(sub) ==
    \/ sub.end - sub.start < MIN_CLIP_DURATION
    \/ AlnumCount(sub.text) < MIN_TRANSCRIPT_LENGTH
    \/ sub.dbfs < MIN_CLIP_ENERGY_DB * 100

AdmittedPassedGates ==
    /\ \A k \in 1..Len(admitted) : PassedGates(admitted[k])
    /\ Len(exports) = Len(admitted)
    /\ \A k \in 1..Len(exports) :
          /\ exports[k].clip_index = admitted[k].clip_index
          /\ exports[k].dbfs >= MIN_CLIP_ENERGY_DB * 100
          /\ exports[k].end - exports[k].start >= MIN_CLIP_DURATION

FailedIsDropped ==
    (sub_segs # <<>> /\ FailsAGate(Head(sub_segs)))
        => (admitted' = admitted /\ exports' = exports)

\* C19: every clip process_audio_file admits lasts at least
\* min_clip_duration, has at least min_transcript_length alphanumerics in
\* its transcript and a slice at least as loud as min_energy_db; a
\* candidate that fails one of the gates is neither exported nor cataloged.
C19_AdmittedClipsPassedAllGates == []AdmittedPassedGates /\ [][FailedIsDropped]_vars

\* one candidate was admitted with an enhanced transcript at the loudness
\* limit, one was dropped as too quiet
C19_Witness ==
    /\ sub_segs = <<>>
    /\ Len(admitted) = 1
    /\ admitted[1].text # admitted[1].text_original
    /\ admitted[1].energy_db * 10 = MIN_CLIP_ENERGY_DB * 100
    /\ skipped.too_quiet = 1

\* the positions at which a chunk of 2 to 20 characters is followed by a
\* copy of itself
RepeatPositions(text) ==
    {i \in 1..Len(text) : \E length \in 2..20 : ChunkRepeatsAt(text, i, length)}

\* the result C24 describes
CleanAsClaimed(text) ==
    LET at == RepeatPositions(text)
        first == CHOOSE i \in at : \A j \in at : i <= j
    IN  IF at = {} \/ Strip(Prefix(text, first - 1)) = <<>>
        THEN Strip(Prefix(text, 100))
        ELSE Strip(Prefix(text, first - 1))

\* C24: clean_hallucination returns the trimmed text before the earliest
\* position at which a chunk of 2 to 20 characters is followed by a copy of
\* itself, and the trimmed first 100 characters when there is no such
\* position or nothing stands before it.
C24_CutsAtEarliestRepeat ==
    ret.fn = "clean_hallucination" => ret.text = CleanAsClaimed(arg)

\* a chunk of 8 to 30 characters stands three times in a row
ThreefoldChunk(text) ==
    \E length \in 8..30 :
        \E i \in 1..Len(text) :
            /\ i + 3 * length - 1 <= Len(text)
            /\ ChunkRepeatsAt(text, i, length)
            /\ ChunkRepeatsAt(text, i + length, length)

\* C25: a text of 50 or more characters in which a chunk of 8 to 30
\* characters stands three times in a row, at the end of the text included,
\* is flagged by is_whisper_hallucination.
C25_ThreefoldChunkIsFlagged ==
    (ret.fn = "is_whisper_hallucination" /\ Len(arg) >= 50 /\ ThreefoldChunk(arg))
        => ret.flag

\* ---- one segment through process_audio_file (SpecSegment) ----

\* the segment was flagged and its cleaned text passes the length gate
CleanedKept ==
    /\ is_whisper_hallucination(Strip(seg.text))
    /\ ~is_transcript_too_short(clean_hallucination(Strip(seg.text)))

\* C23: when a segment is flagged and its cleaned text is kept, the text of
\* every clip emitted from the segment is taken from the cleaned text: no
\* clip holds words of the tail that was cut off.
C23_ClipsComeFromCleanedText ==
    CleanedKept =>
        \A k \in 1..Len(admitted) :
            Contains(clean_hallucination(Strip(seg.text)), admitted[k].text_original)

\* ---- concurrent processes (SpecConc) ----

\* C13: a reader that opens and parses the catalog while a writer rewrites
\* it gets a complete catalog (the old or the new one), never an empty or
\* partly written file.
C13_ReaderSeesCompleteCatalog == rd.status # "decode_error"

\* both writers are through
Quiescent == bw.pc = "done" /\ rw.pc = "done"

\* the persisted catalog names an audio file that is not in the clip folder
DanglingEntry ==
    /\ Parses(cbytes)
    /\ \E k \in DOMAIN ParseClips(cbytes) :
          ParseClips(cbytes)[k].clip_file \notin DOMAIN disk

\* an entry the builder saved is gone although the resolver did not mark it
LostBuilderUpdate ==
    /\ Parses(cbytes)
    /\ \E k \in DOMAIN bw.wrote :
          /\ bw.wrote[k] \notin Range(ParseClips(cbytes))
          /\ bw.wrote[k].clip_file \notin rw.remove_files

\* an entry the resolver removed is back although its source was not
\* transcribed again
LostResolverUpdate ==
    /\ Parses(cbytes)
    /\ \E k \in DOMAIN ParseClips(cbytes) :
          /\ ParseClips(cbytes)[k].clip_file \in rw.remove_files
          /\ ParseClips(cbytes)[k].source_file \notin bw.transcribed

\* C14: when the builder run and the resolver delete run are serialized, in
\* either order, the persisted catalog afterwards is well-formed, names only
\* audio files that exist and has lost neither writer's update.  (That the
\* unserialized runs do reach such a state is C14_Witness.)
C14_SerializedWritersAreSafe ==
    (serial /\ Quiescent) =>
        /\ Parses(cbytes)
        /\ ~DanglingEntry
        /\ ~LostBuilderUpdate
        /\ ~LostResolverUpdate

\* unserialized: both runs completed, the resolver deleted files, and the
\* catalog the builder saved last still names one of them
C14_Witness ==
    /\ ~serial /\ Quiescent
    /\ rw.remove_files # {}
    /\ DanglingEntry
    /\ LostResolverUpdate

\* ---- clip manager UI (SpecUI) ----

\* C28: under every sequence of /api/add and /api/command requests at most
\* one background job (download_and_parse or run_command) is active at any
\* time, and progress["running"] is True whenever a job is active.
C28_OneJobAtATime ==
    /\ Cardinality(ActiveJobs) <= 1
    /\ ActiveJobs # {} => progress.running

\* ---- clear_log and the polling consumer (SpecClear) ----

\* how many times the consumer was handed line id
TimesGot(id) == Cardinality({i \in 1..Len(got) : got[i] = id})

\* the places in the file of the stamped lines appended after job j emptied it
AppendedSince(j) ==
    {k \in 1..Len(mlog.lines) :
        mlog.lines[k].wf /\ mlog.lines[k].id > jobs[j].emptied.written}

\* C29: when clear_log empties the message log while a consumer is polling
\* it, every well-formed line appended afterwards is returned to the consumer
\* by a later read_new_messages call, exactly once and complete: no such line
\* is returned twice, and none is left behind the consumer's offset (calls
\* read from the offset on, and the offset never goes back) without having
\* been returned.
C29_LinesAfterClearAreRead ==
    \A j \in 1..Len(jobs) :
        (jobs[j].emptied.log /\ jobs[j].emptied.polling) =>
            \A k \in AppendedSince(j) :
                /\ TimesGot(mlog.lines[k].id) <= 1
                /\ StartOf(mlog.lines, k) < cursor => TimesGot(mlog.lines[k].id) = 1

\* ---- launcher (SpecLaunch) ----

\* the children that run although no terminate was sent to them
Untouched == {c \in 1..Len(children) : children[c].state = "running" /\ ~children[c].term}

\* the children that still run
LeftRunning == {c \in 1..Len(children) : children[c].state = "running"}

\* C30: once a poll has found an exited child or the launcher has been
\* interrupted, every child still running is sent terminate (here: it has
\* been, whenever main is no longer in its terminate loop), and when the
\* shutdown sequence has completed no child is left running.
C30_ShutdownStopsEveryChild ==
    /\ (launcher.why # "none" /\ launcher.at # "terminating") => Untouched = {}
    /\ launcher.at = "stopped" => LeftRunning = {}


====
